---------------------------- MODULE Spec2Model ----------------------------
(***************************************************************************)
(* Analytics aggregation backends of the tag manager API: the columnar     *)
(* backend (GoogleCloudBigQuery) and the document backend (MongoDb).       *)
(*                                                                         *)
(* Conventions of the model                                                *)
(*  - an instant (a JS Date, a dt value) is an integer number of           *)
(*    milliseconds; the process formats dates in UTC;                      *)
(*  - a string that the code inspects (INSTR, LIKE, a regular expression)  *)
(*    is a sequence of one-character strings; a string that is only        *)
(*    compared for equality is a TLA+ string;                              *)
(*  - a JS object (filter options, a Mongo filter, a stored document) is a *)
(*    function from keys to values: an absent key is an undefined          *)
(*    property / a missing document field / a NULL column.                 *)
(***************************************************************************)
EXTENDS Integers, Sequences, FiniteSets, TLC

VARIABLES
    now,        \* the wall clock read by includeBuffer (new Date())
    usageIngestEndpointEnvironmentId,  \* entity -> usage binding id or undefined
    store,      \* the rows of the entity's storage unit (same data in both engines)
    bigQuery,   \* GoogleCloudBigQuery.bigQuery, the lazily built client handle
    call,       \* the last metric call and its outcome
    row,        \* filter evaluation: the row under test
    opts,       \* filter evaluation: the QueryOptions under test
    admitted,   \* filter evaluation: the last filter applied and its verdict
    calls,      \* concurrent calls: caller -> its position in getBigQuery and the handles it used
    constructed, \* the number of BigQuery client handles built so far
    datasets,   \* the names of the datasets that exist in the BigQuery project
    attempts    \* dataset name -> the number of createDataset requests made for it

vars ==
    <<now, usageIngestEndpointEnvironmentId, store, bigQuery, call, row, opts, admitted,
      calls, constructed, datasets, attempts>>

----------------------------------------------------------------------------
(* Bounds of the model *)

MaxDay == 2

MaxFilters == 2

MaxRows == 3

\* the number of concurrent callers of one columnar backend instance
MaxCallers == 2

----------------------------------------------------------------------------
(* Strings *)

Has(o, k) == k \in DOMAIN o

UpperCase == <<"A","B","C","D","E","F","G","H","I","J","K","L","M",
               "N","O","P","Q","R","S","T","U","V","W","X","Y","Z">>

LowerCase == <<"a","b","c","d","e","f","g","h","i","j","k","l","m",
               "n","o","p","q","r","s","t","u","v","w","x","y","z">>

ToLowerChar(c) ==
    IF \E i \in 1..Len(UpperCase) : UpperCase[i] = c
    THEN LowerCase[CHOOSE i \in 1..Len(UpperCase) : UpperCase[i] = c]
    ELSE c

ToLower(s) == [i \in 1..Len(s) |-> ToLowerChar(s[i])]

\* sub occurs in s as a contiguous substring
Contains(s, sub) ==
    \E i \in 0..(Len(s) - Len(sub)) : SubSeq(s, i + 1, i + Len(sub)) = sub

\* a JS regular expression literal made of plain characters with the i flag:
\* /mobile/i.test(s)
RegexTestI(s, pattern) == Contains(ToLower(s), ToLower(pattern))

\* SQL LIKE: % matches any run of characters, _ exactly one character
RECURSIVE LikeMatch(_, _)
LikeMatch(s, p) ==
    IF p = <<>> THEN s = <<>>
    ELSE IF Head(p) = "%"
         THEN \E k \in 0..Len(s) : LikeMatch(SubSeq(s, k + 1, Len(s)), Tail(p))
    ELSE IF s = <<>> THEN FALSE
    ELSE IF Head(p) = "_" THEN LikeMatch(Tail(s), Tail(p))
    ELSE Head(s) = Head(p) /\ LikeMatch(Tail(s), Tail(p))

----------------------------------------------------------------------------
(* Time *)

MsPerHour == 60 * 60 * 1000

MsPerDay == 24 * MsPerHour

\* format(date, 'yyyy-MM-dd HH:mm:ss'): the milliseconds are dropped; the
\* value is the instant the formatted text denotes
FormatSeconds(t) == t - (t % 1000)

\* format(date, 'yyyy-MM-dd'): the day the instant falls on
FormatDate(t) == t \div MsPerDay

getRangeFrom(options) == FormatSeconds(options.filter_options.from)

getRangeTo(options) == FormatSeconds(options.filter_options.to)

getPartitionWindowFrom(options) == FormatDate(options.filter_options.from)

getPartitionWindowTo(options) == FormatDate(options.filter_options.to)

\* sub(new Date(), {days: 1, hours: 1})
BufferStart(clock) == clock - (1 * MsPerDay + 1 * MsPerHour)

includeBuffer(options, clock) == options.filter_options.to > BufferStart(clock)


----------------------------------------------------------------------------
(* Columns of a stored row.  A key the row lacks is a NULL column in the   *)
(* columnar table and a missing field in the document collection.          *)

\* _PARTITIONTIME of a row still in the streaming buffer is NULL
NoPartition == -1

\* SQL three-valued logic: "T" true, "F" false, "N" NULL
Bool3(b) == IF b THEN "T" ELSE "F"

And3(a, b) ==
    IF a = "F" \/ b = "F" THEN "F"
    ELSE IF a = "N" \/ b = "N" THEN "N"
    ELSE "T"

Or3(a, b) ==
    IF a = "T" \/ b = "T" THEN "T"
    ELSE IF a = "N" \/ b = "N" THEN "N"
    ELSE "F"

Not3(a) == IF a = "T" THEN "F" ELSE IF a = "F" THEN "T" ELSE "N"

RECURSIVE AndAll3(_)
AndAll3(vs) == IF vs = <<>> THEN "T" ELSE And3(Head(vs), AndAll3(Tail(vs)))

\* col = value, NULL when the column is NULL
SqlEq(r, col, value) == IF Has(r, col) THEN Bool3(r[col] = value) ELSE "N"

\* INSTR(col, value) > 0
SqlInstr(r, col, value) == IF Has(r, col) THEN Bool3(Contains(r[col], value)) ELSE "N"

\* col LIKE pattern
SqlLike(r, col, pattern) == IF Has(r, col) THEN Bool3(LikeMatch(r[col], pattern)) ELSE "N"

----------------------------------------------------------------------------
(* NET.REG_DOMAIN(url) rendered by FORMAT("%T", ...) with the quotes       *)
(* removed: the registrable domain of the url's host, or the text NULL.    *)

RECURSIVE IndexOfAny(_, _, _)
\* the first position >= i of s holding a character of cs, or Len(s) + 1
IndexOfAny(s, cs, i) ==
    IF i > Len(s) THEN Len(s) + 1
    ELSE IF s[i] \in cs THEN i
    ELSE IndexOfAny(s, cs, i + 1)

SchemeEnd(url) ==
    IF \E i \in 1..(Len(url) - 2) : SubSeq(url, i, i + 2) = <<":", "/", "/">>
    THEN (CHOOSE i \in 1..(Len(url) - 2) :
              /\ SubSeq(url, i, i + 2) = <<":", "/", "/">>
              /\ \A j \in 1..(i - 1) : SubSeq(url, j, j + 2) # <<":", "/", "/">>) + 2
    ELSE 0

\* the host of an url: what follows the scheme up to the path, query or port
UrlHost(url) ==
    LET start == SchemeEnd(url) + 1
        stop  == IndexOfAny(url, {"/", "?", "#", ":"}, start)
    IN  SubSeq(url, start, stop - 1)

RECURSIVE LastDotBefore(_, _)
\* the last position < i of s holding ".", or 0
LastDotBefore(s, i) ==
    IF i <= 1 THEN 0
    ELSE IF s[i - 1] = "." THEN i - 1
    ELSE LastDotBefore(s, i - 1)

NullText == <<"N", "U", "L", "L">>

\* the public suffix is taken to be the last label of the host
RegDomainText(url) ==
    LET host == UrlHost(url)
        d1   == LastDotBefore(host, Len(host) + 1)
        d2   == LastDotBefore(host, d1)
    IN  IF d1 <= 1 \/ d1 = Len(host) \/ d2 + 1 = d1 THEN NullText
        ELSE SubSeq(host, d2 + 1, Len(host))

SqlRegDomainEq(r, col, value) ==
    Bool3((IF Has(r, col) THEN RegDomainText(r[col]) ELSE NullText) = value)

----------------------------------------------------------------------------
(* GoogleCloudBigQuery: the filter *)

Mobile == <<"M","o","b","i","l","e">>
IPhone == <<"i","P","h","o","n","e">>
IPad == <<"i","P","a","d">>
IOS == <<"i","O","S">>
Android == <<"A","n","d","r","o","i","d">>

\* MOBILE_TEST evaluated on a row
BQ_MOBILE_TEST(r) ==
    Or3(SqlInstr(r, "browser_name", Mobile),
    Or3(SqlEq(r, "device_name", IPhone),
    Or3(SqlEq(r, "device_name", IPad),
    Or3(SqlEq(r, "os_name", IOS),
        SqlEq(r, "os_name", Android)))))

\* the text generateRange builds, as the clause it denotes
generateRange(options, clock) ==
    [kind     |-> "range",
     buffer   |-> includeBuffer(options, clock),
     partFrom |-> getPartitionWindowFrom(options),
     partTo   |-> getPartitionWindowTo(options),
     from     |-> getRangeFrom(options),
     to       |-> getRangeTo(options)]

\* one optional clause of getAppFilter: undefined unless the option is set
BQ_StringFilter(queryOptions, optionKey, kind, col, param) ==
    IF Has(queryOptions.filter_options, optionKey)
    THEN [kind |-> kind, col |-> col, param |-> param,
          value |-> queryOptions.filter_options[optionKey]]
    ELSE [kind |-> "undefined"]

BQ_getMobile(queryOptions) ==
    IF Has(queryOptions.filter_options, "mobile") /\ queryOptions.filter_options.mobile
    THEN [kind |-> "mobile", param |-> "mobile", value |-> TRUE]
    ELSE IF Has(queryOptions.filter_options, "mobile") /\ ~queryOptions.filter_options.mobile
    THEN [kind |-> "notMobile", param |-> "mobile", value |-> FALSE]
    ELSE [kind |-> "undefined"]

\* the [where, params] reduction shared by getAppFilter and getIngestEndpointFilter:
\* where is the conjunction of the range and the defined clauses, params
\* maps each clause's parameter name to its value
BQ_Reduce(clauses, range) ==
    LET present == SelectSeq(clauses, LAMBDA c : c.kind # "undefined")
        names   == {present[i].param : i \in 1..Len(present)}
    IN  [where  |-> <<range>> \o [i \in 1..Len(present) |->
                        [kind  |-> present[i].kind,
                         col   |-> IF Has(present[i], "col") THEN present[i].col ELSE "",
                         param |-> present[i].param]],
         params |-> [n \in names |->
                        present[CHOOSE i \in 1..Len(present) : present[i].param = n].value]]

BQ_getAppFilter(queryOptions, clock) ==
    BQ_Reduce(
      << BQ_StringFilter(queryOptions, "revision", "eq", "revision_id", "revision_id"),
         BQ_StringFilter(queryOptions, "environment", "eq", "environment_id", "environment_id"),
         BQ_StringFilter(queryOptions, "event", "eq", "event", "event"),
         BQ_StringFilter(queryOptions, "event_group", "eq", "event_group", "event_group"),
         BQ_StringFilter(queryOptions, "utm_source", "eq", "utm_source", "utm_source"),
         BQ_StringFilter(queryOptions, "utm_medium", "eq", "utm_medium", "utm_medium"),
         BQ_StringFilter(queryOptions, "utm_campaign", "eq", "utm_campaign", "utm_campaign"),
         BQ_StringFilter(queryOptions, "utm_term", "eq", "utm_term", "utm_term"),
         BQ_StringFilter(queryOptions, "utm_content", "eq", "utm_content", "utm_content"),
         BQ_StringFilter(queryOptions, "country", "eq", "user_country", "country"),
         BQ_StringFilter(queryOptions, "page", "like", "page_url", "page"),
         BQ_StringFilter(queryOptions, "referrer", "like", "referrer_url", "referrer"),
         BQ_StringFilter(queryOptions, "referrer_tld", "regDomainEq", "referrer_url", "referrer_tld"),
         BQ_getMobile(queryOptions),
         BQ_StringFilter(queryOptions, "browser", "eq", "browser_name", "browser"),
         BQ_StringFilter(queryOptions, "os", "eq", "os_name", "os") >>,
      generateRange(queryOptions, clock))

BQ_getIngestEndpointFilter(queryOptions, clock) ==
    BQ_Reduce(
      << BQ_StringFilter(queryOptions, "revision", "eq", "revision_id", "revision_id"),
         BQ_StringFilter(queryOptions, "environment", "eq", "environment_id", "environment_id") >>,
      generateRange(queryOptions, clock))

\* one clause of a WHERE text evaluated on a row with the query parameters
BQ_Clause(c, params, r) ==
    CASE c.kind = "range" ->
           LET part == IF r.partition = NoPartition THEN "N"
                       ELSE And3(Bool3(r.partition >= c.partFrom),
                                 Bool3(r.partition <= c.partTo))
               time == And3(Bool3(r.dt >= c.from), Bool3(r.dt < c.to))
           IN  IF c.buffer
               THEN And3(Or3(part, Bool3(r.partition = NoPartition)), time)
               ELSE And3(part, time)
      [] c.kind = "eq" -> SqlEq(r, c.col, params[c.param])
      [] c.kind = "like" -> SqlLike(r, c.col, params[c.param])
      [] c.kind = "regDomainEq" -> SqlRegDomainEq(r, c.col, params[c.param])
      [] c.kind = "mobile" -> BQ_MOBILE_TEST(r)
      [] c.kind = "notMobile" -> Not3(BQ_MOBILE_TEST(r))

\* WHERE keeps the rows on which the conjunction is true (not false, not NULL)
BQ_Where(filter, r) ==
    AndAll3([i \in 1..Len(filter.where) |->
                BQ_Clause(filter.where[i], filter.params, r)]) = "T"

----------------------------------------------------------------------------
(* BaseDatabase helpers used by both backends *)

getRangeFromAsDate(options) == options.filter_options.from

getRangeToAsDate(options) == options.filter_options.to

\* every metric returns its rows or scalar wrapped with the range
getResultWithRange(options, result) ==
    [result |-> result,
     from   |-> getRangeFromAsDate(options),
     to     |-> getRangeToAsDate(options)]

----------------------------------------------------------------------------
(* MongoDb: the filter *)

\* MOBILE_TEST: [field, regular expression] pairs, all with the i flag
Mongo_MOBILE_TEST ==
    << <<"browser_name", <<"m","o","b","i","l","e">> >>,
       <<"device_name", <<"i","p","h","o","n","e">> >>,
       <<"device_name", <<"i","p","a","d">> >>,
       <<"os_name", <<"i","o","s">> >>,
       <<"os_name", <<"a","n","d","r","o","i","d">> >> >>

getAsMobileFilter == Mongo_MOBILE_TEST

\* Object.assign(a, c): the properties of c are written over those of a
ObjectAssign(a, c) == c @@ a

\* a filter object with one property, or undefined (the empty object here:
\* the reduction skips undefined, and assigning nothing changes nothing)
Mongo_getFilterObjectFromStringFilterOption(queryOptions, filterOptionKey, filterKey) ==
    IF Has(queryOptions.filter_options, filterOptionKey)
    THEN filterKey :> [op |-> "eq", value |-> queryOptions.filter_options[filterOptionKey]]
    ELSE <<>>

Mongo_getRange(queryOptions) ==
    "dt" :> [op  |-> "range",
             gte |-> getRangeFromAsDate(queryOptions),
             lt  |-> getRangeToAsDate(queryOptions)]

Mongo_getMobile(queryOptions) ==
    IF Has(queryOptions.filter_options, "mobile")
    THEN IF queryOptions.filter_options.mobile
         THEN "$or" :> [op |-> "or", tests |-> getAsMobileFilter]
         ELSE "$nor" :> [op |-> "nor", tests |-> getAsMobileFilter]
    ELSE <<>>

RECURSIVE Mongo_Reduce(_, _)
\* [...].reduce((a, c) => c === undefined ? a : Object.assign(a, c), {})
Mongo_Reduce(parts, a) ==
    IF parts = <<>> THEN a
    ELSE Mongo_Reduce(Tail(parts), ObjectAssign(a, Head(parts)))

Mongo_getAppFilter(queryOptions) ==
    Mongo_Reduce(
      << Mongo_getRange(queryOptions),
         Mongo_getFilterObjectFromStringFilterOption(queryOptions, "revision", "revision_id"),
         Mongo_getFilterObjectFromStringFilterOption(queryOptions, "environment", "environment_id"),
         Mongo_getFilterObjectFromStringFilterOption(queryOptions, "event", "event"),
         Mongo_getFilterObjectFromStringFilterOption(queryOptions, "event_group", "event_group"),
         Mongo_getFilterObjectFromStringFilterOption(queryOptions, "utm_source", "utm_source"),
         Mongo_getFilterObjectFromStringFilterOption(queryOptions, "utm_medium", "utm_medium"),
         Mongo_getFilterObjectFromStringFilterOption(queryOptions, "utm_campaign", "utm_campaign"),
         Mongo_getFilterObjectFromStringFilterOption(queryOptions, "utm_term", "utm_term"),
         Mongo_getFilterObjectFromStringFilterOption(queryOptions, "utm_content", "utm_content"),
         Mongo_getFilterObjectFromStringFilterOption(queryOptions, "country", "user_country"),
         Mongo_getFilterObjectFromStringFilterOption(queryOptions, "page", "page_url"),
         Mongo_getFilterObjectFromStringFilterOption(queryOptions, "referrer", "referrer_url"),
         Mongo_getFilterObjectFromStringFilterOption(queryOptions, "referrer_tld", "referrer_url"),
         Mongo_getMobile(queryOptions),
         Mongo_getFilterObjectFromStringFilterOption(queryOptions, "browser", "browser_name"),
         Mongo_getFilterObjectFromStringFilterOption(queryOptions, "os", "os_name") >>,
      <<>>)

Mongo_getIngestEndpointFilter(queryOptions) ==
    Mongo_Reduce(
      << Mongo_getRange(queryOptions),
         Mongo_getFilterObjectFromStringFilterOption(queryOptions, "revision", "revision_id"),
         Mongo_getFilterObjectFromStringFilterOption(queryOptions, "environment", "environment_id") >>,
      <<>>)

\* one [field, regex] test of the mobile list on a document
Mongo_RegexField(doc, test) == Has(doc, test[1]) /\ RegexTestI(doc[test[1]], test[2])

\* one property of a filter object evaluated on a document
Mongo_Condition(key, cond, doc) ==
    CASE cond.op = "range" -> Has(doc, key) /\ doc[key] >= cond.gte /\ doc[key] < cond.lt
      [] cond.op = "eq" -> Has(doc, key) /\ doc[key] = cond.value
      [] cond.op = "exists" -> Has(doc, key)
      [] cond.op = "or" ->
           \E i \in 1..Len(cond.tests) : Mongo_RegexField(doc, cond.tests[i])
      [] cond.op = "nor" ->
           ~ \E i \in 1..Len(cond.tests) : Mongo_RegexField(doc, cond.tests[i])

\* $match: the document satisfies every property of the filter object
Mongo_Match(filter, doc) ==
    \A key \in DOMAIN filter : Mongo_Condition(key, filter[key], doc)

----------------------------------------------------------------------------
(* Inputs of the filter evaluation *)

RECURSIVE UpTo(_, _)
\* the subsets of S with at most k elements
UpTo(S, k) ==
    IF k = 0 THEN {{}}
    ELSE LET smaller == UpTo(S, k - 1)
         IN  smaller \cup {T \cup {x} : T \in smaller, x \in S}

Url1 == <<"h","t","t","p",":","/","/","a",".","i","o","/","x">>
Url2 == <<"h","t","t","p",":","/","/","w",".","b",".","i","o">>
AIo == <<"a",".","i","o">>
LikeAIo == <<"%","a",".","i","o","%">>
Chrome == <<"C","h","r","o","m","e">>
MobileSafari == <<"M","o","b","i","l","e"," ","S","a","f","a","r","i">>
OperaMobi == <<"O","p","e","r","a"," ","m","o","b","i","l","e">>
PC == <<"P","C">>
IPhone12 == <<"i","P","h","o","n","e"," ","1","2">>
IPhoneLower == <<"i","p","h","o","n","e">>
Linux == <<"L","i","n","u","x">>
AndroidLower == <<"a","n","d","r","o","i","d">>

\* the instants of the model: three per day, two of them off the second
Times == {d * MsPerDay + o : d \in 0..MaxDay, o \in {0, 500, 1000}}

\* clocks around the end of the buffer window of the last day
Clocks == {MaxDay * MsPerDay + 1 * MsPerDay + 1 * MsPerHour + o : o \in {0, 500}}

PlainColumns ==
    {"revision_id", "environment_id", "event", "event_group", "utm_source",
     "utm_medium", "utm_campaign", "utm_term", "utm_content", "user_country"}

ColumnValues(col) ==
    CASE col \in PlainColumns -> {"a", "b", ""}
      [] col = "referrer_url" -> {Url1, Url2, AIo, <<>>}
      [] col = "page_url" -> {Url1, Url2, AIo, <<>>}
      [] col = "browser_name" -> {Chrome, MobileSafari, OperaMobi}
      [] col = "device_name" -> {PC, IPhone, IPad, IPhone12, IPhoneLower}
      [] col = "os_name" -> {Linux, IOS, Android, AndroidLower}

Columns ==
    PlainColumns \cup {"referrer_url", "page_url", "browser_name", "device_name", "os_name"}

\* a desktop page view inside the range of FieldOptions
BaseRow ==
    [dt |-> 1000, partition |-> 0, user_hash |-> "u1", requests |-> 1, bytes |-> 10,
     revision_id |-> "a", environment_id |-> "a", event |-> "a", event_group |-> "a",
     utm_source |-> "a", utm_medium |-> "a", utm_campaign |-> "a", utm_term |-> "a",
     utm_content |-> "a", user_country |-> "a", referrer_url |-> Url1, page_url |-> Url1,
     browser_name |-> Chrome, device_name |-> PC, os_name |-> Linux]

Without(r, col) == [k \in (DOMAIN r) \ {col} |-> r[k]]

\* the base row with one column changed or missing
FieldRows ==
    {BaseRow}
    \cup {Without(BaseRow, col) : col \in Columns}
    \cup UNION {{[BaseRow EXCEPT ![col] = v] : v \in ColumnValues(col)} : col \in Columns}

\* rows that differ in time and partition only
TimeRows ==
    {[BaseRow EXCEPT !.dt = t, !.partition = p] :
        t \in Times, p \in {NoPartition} \cup (0..MaxDay)}

PlainOptions ==
    {"revision", "environment", "event", "event_group", "utm_source",
     "utm_medium", "utm_campaign", "utm_term", "utm_content", "country"}

OptionValues(key) ==
    CASE key \in PlainOptions -> {"a", "b"}
      [] key = "referrer" -> {Url1, AIo, LikeAIo}
      [] key = "page" -> {Url1, AIo, LikeAIo}
      [] key = "referrer_tld" -> {AIo, Url1}
      [] key = "mobile" -> {TRUE, FALSE}
      [] key = "browser" -> {Chrome, MobileSafari}
      [] key = "os" -> {Linux, IOS}

OptionKeys == PlainOptions \cup {"referrer", "page", "referrer_tld", "mobile", "browser", "os"}

\* the keys of IngestQueryFilterOptions besides from and to
IngestOptionKeys == {"revision", "environment"}

RECURSIVE OptionalOver(_)
\* the assignments of a value to each key of K
OptionalOver(K) ==
    IF K = {} THEN {<<>>}
    ELSE LET k == CHOOSE x \in K : TRUE
         IN  {(k :> v) @@ f : v \in OptionValues(k), f \in OptionalOver(K \ {k})}

\* the optional part of a FilterOptions: at most MaxFilters keys are set
OptionalFilters == UNION {OptionalOver(K) : K \in UpTo(OptionKeys, MaxFilters)}

FilterOptionsOver(from, to) ==
    {f @@ [from |-> from, to |-> to] : f \in OptionalFilters}

TimeSlices == {"YEAR", "MONTH", "DAY", "HOUR", "MINUTE"}

QueryOptionsOf(fo) == [time_slice |-> "DAY", filter_options |-> fo, limit |-> 10000]

\* cases that vary the optional filters and one column of the row
FieldCases ==
    {[row |-> r, opts |-> QueryOptionsOf(fo), now |-> c] :
        r \in FieldRows, fo \in FilterOptionsOver(500, 1 * MsPerDay), c \in {MaxDay * MsPerDay}}

\* cases that vary the range, the clock, the row's time and its partition
TimeCases ==
    {[row |-> r, opts |-> QueryOptionsOf([from |-> tt[1], to |-> tt[2]]), now |-> c] :
        r \in TimeRows, tt \in {x \in Times \X Times : x[1] < x[2]}, c \in Clocks}

----------------------------------------------------------------------------
(* Filter evaluation: a filter built from the options is applied to a row *)

NoVerdict == [filter |-> "none", result |-> FALSE]

NoCall == [backend |-> "none"]

\* the callers that can be inside the columnar backend at the same time
Callers == 1..MaxCallers

\* a caller that has not called yet
Idle == [kind |-> "none", pc |-> "idle", left |-> 0, early |-> FALSE, used |-> {}]

NoCalls == [c \in Callers |-> Idle]

\* getDataSetName() and getAnalyticsDataSetName() of the configuration
DataSetNames == {"DataSetName", "AnalyticsDataSetName"}

NoAttempts == [name \in DataSetNames |-> 0]

InitFilter ==
    /\ \E c \in FieldCases \cup TimeCases :
          /\ row = c.row
          /\ opts = c.opts
          /\ now = c.now
    /\ admitted = NoVerdict
    /\ calls = NoCalls
    /\ constructed = 0
    /\ datasets = {}
    /\ attempts = NoAttempts
    /\ usageIngestEndpointEnvironmentId = [e \in {"App", "IngestEndpoint"} |-> "undefined"]
    /\ store = {}
    /\ bigQuery = "undefined"
    /\ call = NoCall

IsIngestOptions(queryOptions) ==
    DOMAIN queryOptions.filter_options \subseteq {"from", "to"} \cup IngestOptionKeys

BQ_AppFilterAdmits(queryOptions, clock, r) == BQ_Where(BQ_getAppFilter(queryOptions, clock), r)

BQ_IngestFilterAdmits(queryOptions, clock, r) ==
    BQ_Where(BQ_getIngestEndpointFilter(queryOptions, clock), r)

Mongo_AppFilterAdmits(queryOptions, r) == Mongo_Match(Mongo_getAppFilter(queryOptions), r)

Mongo_IngestFilterAdmits(queryOptions, r) ==
    Mongo_Match(Mongo_getIngestEndpointFilter(queryOptions), r)

ApplyBQAppFilter ==
    /\ admitted' = [filter |-> "bq.app", result |-> BQ_AppFilterAdmits(opts, now, row)]
    /\ UNCHANGED <<datasets, attempts, calls, constructed, now, usageIngestEndpointEnvironmentId, store, bigQuery, call, row, opts>>

ApplyMongoAppFilter ==
    /\ admitted' = [filter |-> "mongo.app", result |-> Mongo_AppFilterAdmits(opts, row)]
    /\ UNCHANGED <<datasets, attempts, calls, constructed, now, usageIngestEndpointEnvironmentId, store, bigQuery, call, row, opts>>

ApplyBQIngestFilter ==
    /\ IsIngestOptions(opts)
    /\ admitted' = [filter |-> "bq.ingest", result |-> BQ_IngestFilterAdmits(opts, now, row)]
    /\ UNCHANGED <<datasets, attempts, calls, constructed, now, usageIngestEndpointEnvironmentId, store, bigQuery, call, row, opts>>

ApplyMongoIngestFilter ==
    /\ IsIngestOptions(opts)
    /\ admitted' = [filter |-> "mongo.ingest", result |-> Mongo_IngestFilterAdmits(opts, row)]
    /\ UNCHANGED <<datasets, attempts, calls, constructed, now, usageIngestEndpointEnvironmentId, store, bigQuery, call, row, opts>>

NextFilter ==
    \/ ApplyBQAppFilter
    \/ ApplyMongoAppFilter
    \/ ApplyBQIngestFilter
    \/ ApplyMongoIngestFilter

SpecFilter == InitFilter /\ [][NextFilter]_vars

----------------------------------------------------------------------------
(* Aggregation helpers shared by the queries and the pipelines *)

RECURSIVE SumOver(_, _)
\* the sum of f[x] over the finite set S
SumOver(S, f) ==
    IF S = {} THEN 0
    ELSE LET x == CHOOSE y \in S : TRUE IN f[x] + SumOver(S \ {x}, f)

SetMax(S) == CHOOSE x \in S : \A y \in S : y <= x

SetMin(S) == CHOOSE x \in S : \A y \in S : x <= y

UsersOf(rows) == {r.user_hash : r \in rows}

RowsOfUser(rows, u) == {r \in rows : r.user_hash = u}

\* a number the store returns: NULL, or the quotient num / den
NullNumber == [null |-> TRUE, num |-> 0, den |-> 1]

Quotient(num, den) == [null |-> FALSE, num |-> num, den |-> den]

\* Math.round of a returned number: halves go up, null becomes 0
MathRound(v) == IF v.null THEN 0 ELSE (2 * v.num + v.den) \div (2 * v.den)

\* the sequences that list every element of S once
Orderings(S) ==
    {q \in [1..Cardinality(S) -> S] : \A i, j \in 1..Cardinality(S) : i # j => q[i] # q[j]}

\* ORDER BY user_count DESC / $sort {user_count: -1}: rows that tie come in any order
SortedByUserCountDesc(S) ==
    {q \in Orderings(S) : \A i \in 1..(Len(q) - 1) : q[i].user_count >= q[i + 1].user_count}

\* ORDER BY key DESC / $sort {key: -1}
SortedByKeyDesc(S) ==
    {q \in Orderings(S) : \A i \in 1..(Len(q) - 1) : q[i].key >= q[i + 1].key}

\* LIMIT n / aggregation.limit(n)
Limit(q, n) == SubSeq(q, 1, IF Len(q) < n THEN Len(q) ELSE n)

\* getFormatForTimeSlice: the format of the bucket key, or the error thrown
UnsupportedTimeSlice == "Unsupported time slice"

\* a variant that falls back to the format of DAY for any other value
getFormatForTimeSlice_Defaulting(options) ==
    CASE options.time_slice = "YEAR" -> "%Y"
      [] options.time_slice = "MONTH" -> "%Y-%m"
      [] options.time_slice = "HOUR" -> "%Y-%m-%d %H:00:00"
      [] options.time_slice = "MINUTE" -> "%Y-%m-%d %H:%M:00"
      [] OTHER -> "%Y-%m-%d"

getFormatForTimeSlice(options) ==
    CASE options.time_slice = "YEAR" -> "%Y"
      [] options.time_slice = "MONTH" -> "%Y-%m"
      [] options.time_slice = "DAY" -> "%Y-%m-%d"
      [] options.time_slice = "HOUR" -> "%Y-%m-%d %H:00:00"
      [] options.time_slice = "MINUTE" -> "%Y-%m-%d %H:%M:00"
      [] OTHER -> UnsupportedTimeSlice

\* FORMAT_DATETIME(format, dt) / $dateToString: the key is the text of the
\* start of the bucket; it is held as that instant (the instants of the
\* model lie in one month of one year)
FormatDateTime(format, t) ==
    CASE format = "%Y" -> 0
      [] format = "%Y-%m" -> 0
      [] format = "%Y-%m-%d" -> t - (t % MsPerDay)
      [] format = "%Y-%m-%d %H:00:00" -> t - (t % MsPerHour)
      [] format = "%Y-%m-%d %H:%M:00" -> t - (t % (60 * 1000))

----------------------------------------------------------------------------
(* GoogleCloudBigQuery: what each query returns from the table when it runs *)

BQ_Select(rows, filter) == {r \in rows : BQ_Where(filter, r)}

\* a variant that takes the seconds of MAX(dt) alone
BQ_TimeDiff_OfMax(rows, u) ==
    LET ts == {r.dt : r \in RowsOfUser(rows, u)}
    IN  SetMax(ts) \div 1000

\* DATETIME_DIFF(MAX(dt), MIN(dt), SECOND): the second boundaries crossed
BQ_TimeDiff(rows, u) ==
    LET ts == {r.dt : r \in RowsOfUser(rows, u)}
    IN  (SetMax(ts) \div 1000) - (SetMin(ts) \div 1000)

\* SELECT AVG(time_diff) ... GROUP BY user_hash HAVING time_diff > 0: one row,
\* whose duration is NULL when no user is left
BQ_averageSessionDurationRows(rows, filter) ==
    LET sel   == BQ_Select(rows, filter)
        users == {u \in UsersOf(sel) : BQ_TimeDiff(sel, u) > 0}
        diff  == [u \in users |-> BQ_TimeDiff(sel, u)]
    IN  << [duration |-> IF users = {} THEN NullNumber
                         ELSE Quotient(SumOver(users, diff), Cardinality(users))] >>

\* a variant that counts a user's distinct timestamps instead of their events
BQ_bounceRatioRows_ByInstants(rows, filter) ==
    LET sel   == BQ_Select(rows, filter)
        users == UsersOf(sel)
        count == [u \in users |-> Cardinality({r.dt : r \in RowsOfUser(sel, u)})]
        once  == [u \in users |-> IF count[u] = 1 THEN 1 ELSE 0]
    IN  << [bounce_ratio |-> IF users = {} THEN NullNumber
                             ELSE Quotient(SumOver(users, once), SumOver(users, count))] >>

\* SELECT SUM(IF(count = 1,1,0)) / SUM(count) over the per-user counts
BQ_bounceRatioRows(rows, filter) ==
    LET sel   == BQ_Select(rows, filter)
        users == UsersOf(sel)
        count == [u \in users |-> Cardinality(RowsOfUser(sel, u))]
        once  == [u \in users |-> IF count[u] = 1 THEN 1 ELSE 0]
    IN  << [bounce_ratio |-> IF users = {} THEN NullNumber
                             ELSE Quotient(SumOver(users, once), SumOver(users, count))] >>

\* a variant that gives the events as user_count and the users as event_count
BQ_GroupByColumn_Swapped(sel, col) ==
    {[key |-> k,
      user_count |-> Cardinality({r \in sel : Has(r, col) /\ r[col] = k}),
      event_count |-> Cardinality(UsersOf({r \in sel : Has(r, col) /\ r[col] = k}))] :
        k \in {r[col] : r \in {x \in sel : Has(x, col)}}}
    \cup (IF \E r \in sel : ~Has(r, col)
          THEN {[user_count |-> Cardinality({r \in sel : ~Has(r, col)}),
                 event_count |-> Cardinality(UsersOf({r \in sel : ~Has(r, col)}))]}
          ELSE {})

\* SELECT col AS key, COUNT(DISTINCT user_hash), SUM(1) ... GROUP BY key:
\* the NULL column forms a group of its own, whose key is null (no key here)
BQ_GroupByColumn(sel, col) ==
    {[key |-> k,
      user_count |-> Cardinality(UsersOf({r \in sel : Has(r, col) /\ r[col] = k})),
      event_count |-> Cardinality({r \in sel : Has(r, col) /\ r[col] = k})] :
        k \in {r[col] : r \in {x \in sel : Has(x, col)}}}
    \cup (IF \E r \in sel : ~Has(r, col)
          THEN {[user_count |-> Cardinality(UsersOf({r \in sel : ~Has(r, col)})),
                 event_count |-> Cardinality({r \in sel : ~Has(r, col)})]}
          ELSE {})

BQ_countriesRows(rows, filter, queryOptions) ==
    {Limit(q, queryOptions.limit) :
        q \in SortedByUserCountDesc(BQ_GroupByColumn(BQ_Select(rows, filter), "user_country"))}

\* SUM(col) over rows: NULL columns are skipped
SqlSum(rows, col) ==
    LET with == {r \in rows : Has(r, col)}
    IN  SumOver(with, [r \in with |-> r[col]])

\* a variant that orders the buckets by key ascending
BQ_usageRows_Ascending(rows, filter, queryOptions) ==
    LET sel    == BQ_Select(rows, filter)
        format == getFormatForTimeSlice(queryOptions)
        keys   == {FormatDateTime(format, r.dt) : r \in sel}
        bucket(k) == {r \in sel : FormatDateTime(format, r.dt) = k}
        all    == {[key |-> k,
                    requests |-> SqlSum(bucket(k), "requests"),
                    bytes |-> SqlSum(bucket(k), "bytes")] : k \in keys}
    IN  {Limit(q, queryOptions.limit) :
            q \in {o \in Orderings(all) :
                      \A i \in 1..(Len(o) - 1) : o[i].key <= o[i + 1].key}}

\* usage: SELECT FORMAT_DATETIME(format, dt) AS key, SUM(requests), SUM(bytes)
\* ... GROUP BY key ORDER BY key DESC LIMIT
BQ_usageRows(rows, filter, queryOptions) ==
    LET sel    == BQ_Select(rows, filter)
        format == getFormatForTimeSlice(queryOptions)
        keys   == {FormatDateTime(format, r.dt) : r \in sel}
        bucket(k) == {r \in sel : FormatDateTime(format, r.dt) = k}
    IN  {Limit(q, queryOptions.limit) :
            q \in SortedByKeyDesc({[key |-> k,
                                    requests |-> SqlSum(bucket(k), "requests"),
                                    bytes |-> SqlSum(bucket(k), "bytes")] : k \in keys})}

\* a variant that counts the events of a bucket as its users
BQ_eventRequestsRows_CountingEvents(rows, filter, queryOptions) ==
    LET sel    == BQ_Select(rows, filter)
        format == getFormatForTimeSlice(queryOptions)
        keys   == {FormatDateTime(format, r.dt) : r \in sel}
        bucket(k) == {r \in sel : FormatDateTime(format, r.dt) = k}
    IN  {Limit(q, queryOptions.limit) :
            q \in SortedByUserCountDesc({[key |-> k,
                                          user_count |-> Cardinality(bucket(k)),
                                          event_count |-> Cardinality(bucket(k))] : k \in keys})}

\* eventRequests: SELECT FORMAT_DATETIME(format, dt) AS key, COUNT(DISTINCT
\* user_hash), SUM(1) ... GROUP BY key ORDER BY user_count DESC LIMIT
BQ_eventRequestsRows(rows, filter, queryOptions) ==
    LET sel    == BQ_Select(rows, filter)
        format == getFormatForTimeSlice(queryOptions)
        keys   == {FormatDateTime(format, r.dt) : r \in sel}
        bucket(k) == {r \in sel : FormatDateTime(format, r.dt) = k}
    IN  {Limit(q, queryOptions.limit) :
            q \in SortedByUserCountDesc({[key |-> k,
                                          user_count |-> Cardinality(UsersOf(bucket(k))),
                                          event_count |-> Cardinality(bucket(k))] : k \in keys})}

UnsupportedUtmFilter == "UTM filter provided is not currently supported"

\* getUTMKey of GoogleCloudBigQuery.utms: the column, or the error thrown
BQ_getUTMKey(utmFilter) ==
    CASE utmFilter = "MEDIUM" -> "utm_medium"
      [] utmFilter = "SOURCE" -> "utm_source"
      [] utmFilter = "CAMPAIGN" -> "utm_campaign"
      [] OTHER -> UnsupportedUtmFilter

\* utms: WHERE filter AND utmKey <> "" GROUP BY key ORDER BY user_count DESC
\* LIMIT (a NULL column is not <> "")
BQ_utmsRows(rows, filter, queryOptions, utmKey) ==
    LET sel == {r \in BQ_Select(rows, filter) : Has(r, utmKey) /\ r[utmKey] # ""}
    IN  {Limit(q, queryOptions.limit) :
            q \in SortedByUserCountDesc(BQ_GroupByColumn(sel, utmKey))}

\* requests / bytes: SELECT FORMAT_DATETIME(format, dt) AS key, SUM(col) AS
\* count ... GROUP BY key ORDER BY key DESC LIMIT
BQ_ingestSumRows(rows, filter, queryOptions, col) ==
    LET sel    == BQ_Select(rows, filter)
        format == getFormatForTimeSlice(queryOptions)
        keys   == {FormatDateTime(format, r.dt) : r \in sel}
        bucket(k) == {r \in sel : FormatDateTime(format, r.dt) = k}
    IN  {Limit(q, queryOptions.limit) :
            q \in SortedByKeyDesc({[key |-> k, count |-> SqlSum(bucket(k), col)] : k \in keys})}

----------------------------------------------------------------------------
(* MongoDb: what each pipeline returns from the collection when it runs *)

\* MongoDb.getFormatForTimeSlice: the format of the bucket key, or the error thrown
Mongo_getFormatForTimeSlice(options) ==
    CASE options.time_slice = "YEAR" -> "%Y"
      [] options.time_slice = "MONTH" -> "%Y-%m"
      [] options.time_slice = "DAY" -> "%Y-%m-%d"
      [] options.time_slice = "HOUR" -> "%Y-%m-%d %H:00:00"
      [] options.time_slice = "MINUTE" -> "%Y-%m-%d %H:%M:00"
      [] OTHER -> UnsupportedTimeSlice

Mongo_Select(docs, filter) == {d \in docs : Mongo_Match(filter, d)}

\* $group {_id: '$user_hash', max: {$min: '$ts'}, min: {$max: '$ts'}} and
\* $addFields {diff: {$subtract: ['$max', '$min']}}, ts in milliseconds
Mongo_SessionDiff(docs, u) ==
    LET ts  == {d.dt : d \in RowsOfUser(docs, u)}
        max == SetMin(ts)
        min == SetMax(ts)
    IN  max - min

\* ... $match {diff: {$gt: 0}}, $group {_id: null, avg: {$avg: '$diff'}}: no
\* document at all when no user is left
Mongo_averageSessionDurationRows(docs, filter) ==
    LET sel   == Mongo_Select(docs, filter)
        users == {u \in UsersOf(sel) : Mongo_SessionDiff(sel, u) > 0}
        diff  == [u \in users |-> Mongo_SessionDiff(sel, u)]
    IN  IF users = {} THEN <<>>
        ELSE << [avg |-> Quotient(SumOver(users, diff), Cardinality(users))] >>

\* $group by user counting, bounce = 1 when the count is 1, $avg of bounce
Mongo_bounceRatioRows(docs, filter) ==
    LET sel   == Mongo_Select(docs, filter)
        users == UsersOf(sel)
        once  == [u \in users |-> IF Cardinality(RowsOfUser(sel, u)) = 1 THEN 1 ELSE 0]
    IN  IF users = {} THEN <<>>
        ELSE << [bounce |-> Quotient(SumOver(users, once), Cardinality(users))] >>

\* $project key, $group {key, user_hash}, $group key: documents without the
\* field fall in the group whose key is null (no key here)
Mongo_GroupByField(sel, field) ==
    {[key |-> k,
      user_count |-> Cardinality(UsersOf({d \in sel : Has(d, field) /\ d[field] = k})),
      event_count |-> Cardinality({d \in sel : Has(d, field) /\ d[field] = k})] :
        k \in {d[field] : d \in {x \in sel : Has(x, field)}}}
    \cup (IF \E d \in sel : ~Has(d, field)
          THEN {[user_count |-> Cardinality(UsersOf({d \in sel : ~Has(d, field)})),
                 event_count |-> Cardinality({d \in sel : ~Has(d, field)})]}
          ELSE {})

\* getMatch of simpleAppAggregation: match[key] = {$exists: true}
Mongo_getMatch(queryOptions, key, checkExists) ==
    IF checkExists
    THEN (key :> [op |-> "exists"]) @@ Mongo_getAppFilter(queryOptions)
    ELSE Mongo_getAppFilter(queryOptions)

\* the pipeline of simpleAppAggregation up to its $sort
Mongo_simpleAppAggregationRows(docs, queryOptions, key, checkExists) ==
    SortedByUserCountDesc(
        Mongo_GroupByField(
            Mongo_Select(docs, Mongo_getMatch(queryOptions, key, checkExists)), key))

\* $sum of a field: documents without it add 0
MongoSum(docs, field) ==
    LET with == {d \in docs : Has(d, field)}
    IN  SumOver(with, [d \in with |-> d[field]])

Mongo_usageRows(docs, filter, queryOptions) ==
    LET sel    == Mongo_Select(docs, filter)
        format == Mongo_getFormatForTimeSlice(queryOptions)
        keys   == {FormatDateTime(format, d.dt) : d \in sel}
        bucket(k) == {d \in sel : FormatDateTime(format, d.dt) = k}
    IN  SortedByKeyDesc({[key |-> k,
                          requests |-> MongoSum(bucket(k), "requests"),
                          bytes |-> MongoSum(bucket(k), "bytes")] : k \in keys})

\* the pipeline of eventRequests up to its $sort
Mongo_eventRequestsRows(docs, filter, queryOptions) ==
    LET sel    == Mongo_Select(docs, filter)
        format == Mongo_getFormatForTimeSlice(queryOptions)
        keys   == {FormatDateTime(format, d.dt) : d \in sel}
        bucket(k) == {d \in sel : FormatDateTime(format, d.dt) = k}
    IN  SortedByUserCountDesc({[key |-> k,
                                user_count |-> Cardinality(UsersOf(bucket(k))),
                                event_count |-> Cardinality(bucket(k))] : k \in keys})

\* a variant that falls back to utm_source for any other dimension
Mongo_getUTMKey_Defaulting(utmFilter) ==
    CASE utmFilter = "MEDIUM" -> "utm_medium"
      [] utmFilter = "CAMPAIGN" -> "utm_campaign"
      [] OTHER -> "utm_source"

\* getUTMKey of MongoDb.utms: the field, or the error thrown
Mongo_getUTMKey(utmFilter) ==
    CASE utmFilter = "MEDIUM" -> "utm_medium"
      [] utmFilter = "SOURCE" -> "utm_source"
      [] utmFilter = "CAMPAIGN" -> "utm_campaign"
      [] OTHER -> UnsupportedUtmFilter

\* the pipeline of simpleIngestSum up to its $sort
Mongo_simpleIngestSumRows(docs, filter, queryOptions, key) ==
    LET sel    == Mongo_Select(docs, filter)
        format == Mongo_getFormatForTimeSlice(queryOptions)
        keys   == {FormatDateTime(format, d.dt) : d \in sel}
        bucket(k) == {d \in sel : FormatDateTime(format, d.dt) = k}
    IN  SortedByKeyDesc({[key |-> k, count |-> MongoSum(bucket(k), key)] : k \in keys})

----------------------------------------------------------------------------
(* Metric calls *)

Entities == {"App", "IngestEndpoint"}

\* how the store treats the query of a call: it runs, it is rejected when
\* submitted, or fetching its results fails.  A call is recorded with the
\* usage binding (id) its entity had when the call was made.
Failures == {"none", "submit", "fetch"}

Raised(backend, op, entity, queryOptions, failure, error, sent) ==
    [backend |-> backend, op |-> op, entity |-> entity, options |-> queryOptions,
     failure |-> failure, id |-> usageIngestEndpointEnvironmentId[entity],
     status |-> "raised", error |-> error, sent |-> sent]

Returned(backend, op, entity, queryOptions, failure, value) ==
    [backend |-> backend, op |-> op, entity |-> entity, options |-> queryOptions,
     failure |-> failure, id |-> usageIngestEndpointEnvironmentId[entity],
     status |-> "returned", value |-> value, sent |-> TRUE]

UnableToFindUsageEndpoint == "Unable to find usage endpoint"

\* getTable: the table of the entity, or the error thrown
BQ_getTable(id) ==
    IF id = "undefined"
    THEN [thrown |-> TRUE, error |-> UnableToFindUsageEndpoint]
    ELSE [thrown |-> FALSE, table |-> <<"s8", id>>]

\* query: createQueryJob is awaited outside the try, getQueryResults inside
BQ_query(failure, rows) ==
    IF failure = "submit" THEN [thrown |-> TRUE, error |-> "createQueryJob"]
    ELSE IF failure = "fetch" THEN [thrown |-> FALSE, rows |-> <<>>]
    ELSE [thrown |-> FALSE, rows |-> rows]

\* getBigQuery: the handle is built when it is undefined
getBigQuery(handle) == IF handle = "undefined" THEN "BigQuery" ELSE handle

\* what each metric makes of the rows its query returned
BQ_Shape(op, rows) ==
    CASE op = "averageSessionDuration" ->
           IF Len(rows) > 0 THEN MathRound(rows[1].duration) ELSE 0
      [] op = "bounceRatio" ->
           IF Len(rows) > 0 THEN MathRound(rows[1].bounce_ratio) ELSE 0
      [] OTHER -> rows

\* the options with the range as the query's parameters carry it (formatted
\* to the second)
QueriedRange(queryOptions) ==
    [queryOptions EXCEPT !.filter_options.from = getRangeFrom(queryOptions),
                         !.filter_options.to = getRangeTo(queryOptions)]

\* a variant of the metric that wraps its result with the queried range
\* instead of the requested one
BQ_Metric_QueriedRange(op, entity, queryOptions, failure, rowsets) ==
    LET table == BQ_getTable(usageIngestEndpointEnvironmentId[entity])
    IN  IF table.thrown
        THEN /\ call' = Raised("bq", op, entity, queryOptions, failure, table.error, FALSE)
             /\ bigQuery' = bigQuery
        ELSE /\ bigQuery' = getBigQuery(bigQuery)
             /\ \E rows \in rowsets :
                   LET res == BQ_query(failure, rows)
                   IN  call' = IF res.thrown
                               THEN Raised("bq", op, entity, queryOptions, failure, res.error, TRUE)
                               ELSE Returned("bq", op, entity, queryOptions, failure,
                                             getResultWithRange(QueriedRange(queryOptions),
                                                                BQ_Shape(op, res.rows)))

\* a metric of the columnar backend from getTable on: rowsets are the row
\* lists the query can return from the table
BQ_Metric(op, entity, queryOptions, failure, rowsets) ==
    LET table == BQ_getTable(usageIngestEndpointEnvironmentId[entity])
    IN  IF table.thrown
        THEN /\ call' = Raised("bq", op, entity, queryOptions, failure, table.error, FALSE)
             /\ bigQuery' = bigQuery
        ELSE /\ bigQuery' = getBigQuery(bigQuery)
             /\ \E rows \in rowsets :
                   LET res == BQ_query(failure, rows)
                   IN  call' = IF res.thrown
                               THEN Raised("bq", op, entity, queryOptions, failure, res.error, TRUE)
                               ELSE Returned("bq", op, entity, queryOptions, failure,
                                             getResultWithRange(queryOptions,
                                                                BQ_Shape(op, res.rows)))

\* getCollection: the collection of the entity, or the error thrown
Mongo_getCollection(id) ==
    IF id = "undefined"
    THEN [thrown |-> TRUE, error |-> UnableToFindUsageEndpoint]
    ELSE [thrown |-> FALSE, collection |-> <<"s8", id>>]

\* the limit parameter left out (limit?: number)
NoLimit == -1

\* a variant that never applies the limit
Mongo_runAggregation_Unlimited(id, failure, rows, limit) ==
    IF Mongo_getCollection(id).thrown THEN <<>>
    ELSE IF failure # "none" THEN <<>>
    ELSE rows

\* runAggregation: getCollection, aggregate, limit and toArray are all inside
\* the try, and the catch returns []
Mongo_runAggregation(id, failure, rows, limit) ==
    IF Mongo_getCollection(id).thrown THEN <<>>
    ELSE IF failure # "none" THEN <<>>
    ELSE IF limit # NoLimit THEN Limit(rows, limit)
    ELSE rows

\* what each metric makes of the rows runAggregation returned
Mongo_Shape(op, rows) ==
    CASE op = "averageSessionDuration" ->
           IF Len(rows) > 0 THEN MathRound(rows[1].avg) ELSE 0
      [] op = "bounceRatio" ->
           IF Len(rows) > 0 THEN MathRound(rows[1].bounce) ELSE 0
      [] OTHER -> rows

\* a metric of the document backend from runAggregation on: rowsets are the
\* row lists the pipeline can return from the collection
Mongo_Metric(op, entity, queryOptions, failure, rowsets, limit) ==
    LET id == usageIngestEndpointEnvironmentId[entity]
    IN  /\ \E rows \in rowsets :
              call' = [Returned("mongo", op, entity, queryOptions, failure,
                                getResultWithRange(queryOptions,
                                    Mongo_Shape(op, Mongo_runAggregation(id, failure, rows, limit))))
                       EXCEPT !.sent = ~Mongo_getCollection(id).thrown]
        /\ bigQuery' = bigQuery

----------------------------------------------------------------------------
(* Inputs of the metric calls *)

\* the clock of the metric calls: the buffer window starts with the last day
CallClock == MaxDay * MsPerDay + 1 * MsPerDay + 1 * MsPerHour

\* a range that ends before the buffer window and one that ends inside it
CallRanges ==
    {[from |-> 0, to |-> 1 * MsPerDay],
     [from |-> 500, to |-> MaxDay * MsPerDay + 500]}

AppCallOptions ==
    {[time_slice |-> "DAY", filter_options |-> fo, limit |-> l] :
        fo \in CallRanges \cup {("country" :> "a") @@ range : range \in CallRanges},
        l \in {1, 10000}}

IngestCallOptions ==
    {[time_slice |-> ts, filter_options |-> fo, limit |-> l] :
        ts \in TimeSlices \cup {"WEEK"}, fo \in CallRanges, l \in {1, 10000}}

\* the events a store can hold: two users, three instants, the country known or not
StoreRows ==
    LET known == {[BaseRow EXCEPT !.user_hash = u, !.dt = t, !.partition = FormatDate(t)] :
                     u \in {"u1", "u2"}, t \in {200, 1000, 3000}}
    IN  known \cup {Without(r, "user_country") : r \in known}

----------------------------------------------------------------------------
(* The backends under metric calls *)

Init ==
    /\ now = CallClock
    /\ usageIngestEndpointEnvironmentId = [e \in Entities |-> "undefined"]
    /\ store \in UpTo(StoreRows, MaxRows)
    /\ bigQuery = "undefined"
    /\ call = NoCall
    /\ row = BaseRow
    /\ opts = QueryOptionsOf([from |-> 0, to |-> 1 * MsPerDay])
    /\ admitted = NoVerdict
    /\ calls = NoCalls
    /\ constructed = 0
    /\ datasets = {}
    /\ attempts = NoAttempts

\* createApp / createIngestEndpoint: the entity is saved, its usage
\* environment is created and bound to it
createApp ==
    /\ usageIngestEndpointEnvironmentId["App"] = "undefined"
    /\ usageIngestEndpointEnvironmentId' =
           [usageIngestEndpointEnvironmentId EXCEPT !["App"] = "env1"]
    /\ UNCHANGED <<datasets, attempts, calls, constructed, now, store, bigQuery, call, row, opts, admitted>>

createIngestEndpoint ==
    /\ usageIngestEndpointEnvironmentId["IngestEndpoint"] = "undefined"
    /\ usageIngestEndpointEnvironmentId' =
           [usageIngestEndpointEnvironmentId EXCEPT !["IngestEndpoint"] = "env2"]
    /\ UNCHANGED <<datasets, attempts, calls, constructed, now, store, bigQuery, call, row, opts, admitted>>

BQ_averageSessionDuration ==
    /\ call = NoCall
    /\ \E queryOptions \in AppCallOptions, failure \in Failures :
          BQ_Metric("averageSessionDuration", "App", queryOptions, failure,
                    {BQ_averageSessionDurationRows(store, BQ_getAppFilter(queryOptions, now))})
    /\ UNCHANGED <<datasets, attempts, calls, constructed, now, usageIngestEndpointEnvironmentId, store, row, opts, admitted>>

BQ_bounceRatio ==
    /\ call = NoCall
    /\ \E queryOptions \in AppCallOptions, failure \in Failures :
          BQ_Metric("bounceRatio", "App", queryOptions, failure,
                    {BQ_bounceRatioRows(store, BQ_getAppFilter(queryOptions, now))})
    /\ UNCHANGED <<datasets, attempts, calls, constructed, now, usageIngestEndpointEnvironmentId, store, row, opts, admitted>>

BQ_countries ==
    /\ call = NoCall
    /\ \E queryOptions \in AppCallOptions, failure \in Failures :
          BQ_Metric("countries", "App", queryOptions, failure,
                    BQ_countriesRows(store, BQ_getAppFilter(queryOptions, now), queryOptions))
    /\ UNCHANGED <<datasets, attempts, calls, constructed, now, usageIngestEndpointEnvironmentId, store, row, opts, admitted>>

BQ_usage ==
    /\ call = NoCall
    /\ \E queryOptions \in IngestCallOptions, failure \in Failures :
          IF getFormatForTimeSlice(queryOptions) = UnsupportedTimeSlice
          THEN /\ call' = Raised("bq", "usage", "IngestEndpoint", queryOptions, failure,
                                 UnsupportedTimeSlice, FALSE)
               /\ bigQuery' = bigQuery
          ELSE BQ_Metric("usage", "IngestEndpoint", queryOptions, failure,
                         BQ_usageRows(store, BQ_getIngestEndpointFilter(queryOptions, now),
                                      queryOptions))
    /\ UNCHANGED <<datasets, attempts, calls, constructed, now, usageIngestEndpointEnvironmentId, store, row, opts, admitted>>

Mongo_averageSessionDuration ==
    /\ call = NoCall
    /\ \E queryOptions \in AppCallOptions, failure \in Failures :
          Mongo_Metric("averageSessionDuration", "App", queryOptions, failure,
                       {Mongo_averageSessionDurationRows(store, Mongo_getAppFilter(queryOptions))},
                       NoLimit)
    /\ UNCHANGED <<datasets, attempts, calls, constructed, now, usageIngestEndpointEnvironmentId, store, row, opts, admitted>>

Mongo_bounceRatio ==
    /\ call = NoCall
    /\ \E queryOptions \in AppCallOptions, failure \in Failures :
          Mongo_Metric("bounceRatio", "App", queryOptions, failure,
                       {Mongo_bounceRatioRows(store, Mongo_getAppFilter(queryOptions))},
                       NoLimit)
    /\ UNCHANGED <<datasets, attempts, calls, constructed, now, usageIngestEndpointEnvironmentId, store, row, opts, admitted>>

\* countries: simpleAppAggregation(app, queryOptions, 'user_country', true)
Mongo_countries ==
    /\ call = NoCall
    /\ \E queryOptions \in AppCallOptions, failure \in Failures :
          Mongo_Metric("countries", "App", queryOptions, failure,
                       Mongo_simpleAppAggregationRows(store, queryOptions, "user_country", TRUE),
                       queryOptions.limit)
    /\ UNCHANGED <<datasets, attempts, calls, constructed, now, usageIngestEndpointEnvironmentId, store, row, opts, admitted>>

Mongo_usage ==
    /\ call = NoCall
    /\ \E queryOptions \in IngestCallOptions, failure \in Failures :
          IF Mongo_getFormatForTimeSlice(queryOptions) = UnsupportedTimeSlice
          THEN /\ call' = Raised("mongo", "usage", "IngestEndpoint", queryOptions, failure,
                                 UnsupportedTimeSlice, FALSE)
               /\ bigQuery' = bigQuery
          ELSE Mongo_Metric("usage", "IngestEndpoint", queryOptions, failure,
                            Mongo_usageRows(store, Mongo_getIngestEndpointFilter(queryOptions),
                                            queryOptions),
                            queryOptions.limit)
    /\ UNCHANGED <<datasets, attempts, calls, constructed, now, usageIngestEndpointEnvironmentId, store, row, opts, admitted>>

\* the dimensions utms is called with: the three declared ones and another
UtmFilters == {"MEDIUM", "SOURCE", "CAMPAIGN", "TERM"}

\* the name under which a call of utms(app, queryOptions, utmFilter) is recorded
UtmsOp(utmFilter) ==
    CASE utmFilter = "MEDIUM" -> "utms(MEDIUM)"
      [] utmFilter = "SOURCE" -> "utms(SOURCE)"
      [] utmFilter = "CAMPAIGN" -> "utms(CAMPAIGN)"
      [] OTHER -> "utms(TERM)"

UtmCallOptions ==
    {[time_slice |-> "DAY", filter_options |-> fo, limit |-> 10000] : fo \in CallRanges}

EventCallOptions ==
    {[time_slice |-> ts, filter_options |-> fo, limit |-> l] :
        ts \in {"DAY", "MINUTE", "WEEK"}, fo \in CallRanges, l \in {1, 10000}}

BQ_eventRequests ==
    /\ call = NoCall
    /\ \E queryOptions \in EventCallOptions, failure \in Failures :
          IF getFormatForTimeSlice(queryOptions) = UnsupportedTimeSlice
          THEN /\ call' = Raised("bq", "eventRequests", "App", queryOptions, failure,
                                 UnsupportedTimeSlice, FALSE)
               /\ bigQuery' = bigQuery
          ELSE BQ_Metric("eventRequests", "App", queryOptions, failure,
                            BQ_eventRequestsRows(store, BQ_getAppFilter(queryOptions, now), queryOptions))
    /\ UNCHANGED <<datasets, attempts, calls, constructed, now, usageIngestEndpointEnvironmentId, store, row, opts, admitted>>

BQ_utms ==
    /\ call = NoCall
    /\ \E queryOptions \in UtmCallOptions, utmFilter \in UtmFilters, failure \in Failures :
          IF BQ_getUTMKey(utmFilter) = UnsupportedUtmFilter
          THEN /\ call' = Raised("bq", UtmsOp(utmFilter), "App", queryOptions, failure,
                                 UnsupportedUtmFilter, FALSE)
               /\ bigQuery' = bigQuery
          ELSE BQ_Metric(UtmsOp(utmFilter), "App", queryOptions, failure,
                            BQ_utmsRows(store, BQ_getAppFilter(queryOptions, now), queryOptions,
                                        BQ_getUTMKey(utmFilter)))
    /\ UNCHANGED <<datasets, attempts, calls, constructed, now, usageIngestEndpointEnvironmentId, store, row, opts, admitted>>

BQ_requests ==
    /\ call = NoCall
    /\ \E queryOptions \in IngestCallOptions, failure \in Failures :
          IF getFormatForTimeSlice(queryOptions) = UnsupportedTimeSlice
          THEN /\ call' = Raised("bq", "requests", "IngestEndpoint", queryOptions, failure,
                                 UnsupportedTimeSlice, FALSE)
               /\ bigQuery' = bigQuery
          ELSE BQ_Metric("requests", "IngestEndpoint", queryOptions, failure,
                            BQ_ingestSumRows(store, BQ_getIngestEndpointFilter(queryOptions, now),
                                             queryOptions, "requests"))
    /\ UNCHANGED <<datasets, attempts, calls, constructed, now, usageIngestEndpointEnvironmentId, store, row, opts, admitted>>

BQ_bytes ==
    /\ call = NoCall
    /\ \E queryOptions \in IngestCallOptions, failure \in Failures :
          IF getFormatForTimeSlice(queryOptions) = UnsupportedTimeSlice
          THEN /\ call' = Raised("bq", "bytes", "IngestEndpoint", queryOptions, failure,
                                 UnsupportedTimeSlice, FALSE)
               /\ bigQuery' = bigQuery
          ELSE BQ_Metric("bytes", "IngestEndpoint", queryOptions, failure,
                            BQ_ingestSumRows(store, BQ_getIngestEndpointFilter(queryOptions, now),
                                             queryOptions, "bytes"))
    /\ UNCHANGED <<datasets, attempts, calls, constructed, now, usageIngestEndpointEnvironmentId, store, row, opts, admitted>>

Mongo_eventRequests ==
    /\ call = NoCall
    /\ \E queryOptions \in EventCallOptions, failure \in Failures :
          IF Mongo_getFormatForTimeSlice(queryOptions) = UnsupportedTimeSlice
          THEN /\ call' = Raised("mongo", "eventRequests", "App", queryOptions, failure,
                                 UnsupportedTimeSlice, FALSE)
               /\ bigQuery' = bigQuery
          ELSE Mongo_Metric("eventRequests", "App", queryOptions, failure,
                            Mongo_eventRequestsRows(store, Mongo_getAppFilter(queryOptions), queryOptions),
                            queryOptions.limit)
    /\ UNCHANGED <<datasets, attempts, calls, constructed, now, usageIngestEndpointEnvironmentId, store, row, opts, admitted>>

\* utms: simpleAppAggregation(app, queryOptions, getUTMKey(), true)
Mongo_utms ==
    /\ call = NoCall
    /\ \E queryOptions \in UtmCallOptions, utmFilter \in UtmFilters, failure \in Failures :
          IF Mongo_getUTMKey(utmFilter) = UnsupportedUtmFilter
          THEN /\ call' = Raised("mongo", UtmsOp(utmFilter), "App", queryOptions, failure,
                                 UnsupportedUtmFilter, FALSE)
               /\ bigQuery' = bigQuery
          ELSE Mongo_Metric(UtmsOp(utmFilter), "App", queryOptions, failure,
                            Mongo_simpleAppAggregationRows(store, queryOptions,
                                                           Mongo_getUTMKey(utmFilter), TRUE),
                            queryOptions.limit)
    /\ UNCHANGED <<datasets, attempts, calls, constructed, now, usageIngestEndpointEnvironmentId, store, row, opts, admitted>>

\* requests / bytes: simpleIngestSum(ingestEndpoint, queryOptions, key)
Mongo_requests ==
    /\ call = NoCall
    /\ \E queryOptions \in IngestCallOptions, failure \in Failures :
          IF Mongo_getFormatForTimeSlice(queryOptions) = UnsupportedTimeSlice
          THEN /\ call' = Raised("mongo", "requests", "IngestEndpoint", queryOptions, failure,
                                 UnsupportedTimeSlice, FALSE)
               /\ bigQuery' = bigQuery
          ELSE Mongo_Metric("requests", "IngestEndpoint", queryOptions, failure,
                            Mongo_simpleIngestSumRows(store, Mongo_getIngestEndpointFilter(queryOptions),
                                                      queryOptions, "requests"),
                            queryOptions.limit)
    /\ UNCHANGED <<datasets, attempts, calls, constructed, now, usageIngestEndpointEnvironmentId, store, row, opts, admitted>>

Mongo_bytes ==
    /\ call = NoCall
    /\ \E queryOptions \in IngestCallOptions, failure \in Failures :
          IF Mongo_getFormatForTimeSlice(queryOptions) = UnsupportedTimeSlice
          THEN /\ call' = Raised("mongo", "bytes", "IngestEndpoint", queryOptions, failure,
                                 UnsupportedTimeSlice, FALSE)
               /\ bigQuery' = bigQuery
          ELSE Mongo_Metric("bytes", "IngestEndpoint", queryOptions, failure,
                            Mongo_simpleIngestSumRows(store, Mongo_getIngestEndpointFilter(queryOptions),
                                                      queryOptions, "bytes"),
                            queryOptions.limit)
    /\ UNCHANGED <<datasets, attempts, calls, constructed, now, usageIngestEndpointEnvironmentId, store, row, opts, admitted>>

\* the resolver that awaited the metric returns its result to the client (or
\* its error): one metric call is outstanding at a time
resolve ==
    /\ call # NoCall
    /\ call' = NoCall
    /\ UNCHANGED <<datasets, attempts, calls, constructed, now, usageIngestEndpointEnvironmentId, store, bigQuery, row, opts, admitted>>

Next ==
    \/ resolve
    \/ createApp
    \/ createIngestEndpoint
    \/ BQ_averageSessionDuration
    \/ BQ_bounceRatio
    \/ BQ_countries
    \/ BQ_usage
    \/ Mongo_averageSessionDuration
    \/ Mongo_bounceRatio
    \/ Mongo_countries
    \/ Mongo_usage
    \/ BQ_eventRequests
    \/ BQ_utms
    \/ BQ_requests
    \/ BQ_bytes
    \/ Mongo_eventRequests
    \/ Mongo_utms
    \/ Mongo_requests
    \/ Mongo_bytes

Spec == Init /\ [][Next]_vars

----------------------------------------------------------------------------
(* Properties of the metric calls *)

ScalarMetrics == {"averageSessionDuration", "bounceRatio"}

\* what a metric returns when no row matches
EmptyResult(op) == IF op \in ScalarMetrics THEN 0 ELSE <<>>

\* the options are accepted by the metric (usage needs a supported time slice)
ValidOptions(op, queryOptions) ==
    /\ op \in {"eventRequests", "usage", "requests", "bytes"}
          => getFormatForTimeSlice(queryOptions) # UnsupportedTimeSlice
    /\ op # "utms(TERM)"

\* C1: in both backends a metric called on an entity whose usage binding is
\* undefined raises an error to the caller and never returns a result.
C1_UnboundEntityRaises ==
    (call # NoCall /\ call.id = "undefined") => call.status = "raised"

\* C2: in both backends, for a bound entity and valid options, a failure while
\* the store executes the query (rejected when submitted, or failing while
\* the results are fetched) never raises: the metric returns the empty list
\* or 0.
C2_ExecutionFailureIsSoft ==
    (/\ call # NoCall
     /\ call.id # "undefined"
     /\ ValidOptions(call.op, call.options)
     /\ call.failure # "none")
    => (call.status = "returned" /\ call.value.result = EmptyResult(call.op))

\* C3: every result returned by a metric of either backend carries the
\* requested filter_options.from and filter_options.to, whether or not the
\* buffer widened the partition predicate and whether the query returned
\* rows, nothing, or failed softly.
C3_ResultEchoesRequestedRange ==
    (call # NoCall /\ call.status = "returned")
    => /\ call.value.from = call.options.filter_options.from
       /\ call.value.to = call.options.filter_options.to

\* a soft failure of a query whose range starts off the second and ends in
\* the buffer window, answered with the requested range
C3_Witness ==
    /\ call # NoCall
    /\ call.status = "returned"
    /\ call.failure = "fetch"
    /\ includeBuffer(call.options, now)
    /\ call.options.filter_options.from # getRangeFrom(call.options)
    /\ call.value.from = call.options.filter_options.from

\* the dimension of a recorded call of utms
UtmFilterOf(op) ==
    CASE op = "utms(MEDIUM)" -> "MEDIUM"
      [] op = "utms(SOURCE)" -> "SOURCE"
      [] op = "utms(CAMPAIGN)" -> "CAMPAIGN"
      [] op = "utms(TERM)" -> "TERM"

UtmsOps == {UtmsOp(f) : f \in UtmFilters}

\* the row lists each backend can return for a metric from the same events
BQ_Rowsets(op, rows, queryOptions, clock) ==
    CASE op = "averageSessionDuration" ->
           {BQ_averageSessionDurationRows(rows, BQ_getAppFilter(queryOptions, clock))}
      [] op = "bounceRatio" ->
           {BQ_bounceRatioRows(rows, BQ_getAppFilter(queryOptions, clock))}
      [] op = "countries" ->
           BQ_countriesRows(rows, BQ_getAppFilter(queryOptions, clock), queryOptions)
      [] op = "usage" ->
           BQ_usageRows(rows, BQ_getIngestEndpointFilter(queryOptions, clock), queryOptions)
      [] op = "eventRequests" ->
           BQ_eventRequestsRows(rows, BQ_getAppFilter(queryOptions, clock), queryOptions)
      [] op \in UtmsOps ->
           BQ_utmsRows(rows, BQ_getAppFilter(queryOptions, clock), queryOptions,
                       BQ_getUTMKey(UtmFilterOf(op)))
      [] op \in {"requests", "bytes"} ->
           BQ_ingestSumRows(rows, BQ_getIngestEndpointFilter(queryOptions, clock),
                            queryOptions, op)

Mongo_Rowsets(op, docs, queryOptions) ==
    CASE op = "averageSessionDuration" ->
           {Mongo_averageSessionDurationRows(docs, Mongo_getAppFilter(queryOptions))}
      [] op = "bounceRatio" ->
           {Mongo_bounceRatioRows(docs, Mongo_getAppFilter(queryOptions))}
      [] op = "countries" ->
           {Limit(q, queryOptions.limit) :
               q \in Mongo_simpleAppAggregationRows(docs, queryOptions, "user_country", TRUE)}
      [] op = "usage" ->
           {Limit(q, queryOptions.limit) :
               q \in Mongo_usageRows(docs, Mongo_getIngestEndpointFilter(queryOptions),
                                     queryOptions)}
      [] op = "eventRequests" ->
           {Limit(q, queryOptions.limit) :
               q \in Mongo_eventRequestsRows(docs, Mongo_getAppFilter(queryOptions),
                                             queryOptions)}
      [] op \in UtmsOps ->
           {Limit(q, queryOptions.limit) :
               q \in Mongo_simpleAppAggregationRows(docs, queryOptions,
                                                    Mongo_getUTMKey(UtmFilterOf(op)), TRUE)}
      [] op \in {"requests", "bytes"} ->
           {Limit(q, queryOptions.limit) :
               q \in Mongo_simpleIngestSumRows(docs, Mongo_getIngestEndpointFilter(queryOptions),
                                               queryOptions, op)}

\* the results a backend can return for a metric whose query runs
ResultsOf(backend, op, rows, queryOptions, clock) ==
    IF backend = "bq"
    THEN {BQ_Shape(op, r) : r \in BQ_Rowsets(op, rows, queryOptions, clock)}
    ELSE {Mongo_Shape(op, r) : r \in Mongo_Rowsets(op, rows, queryOptions)}

OtherBackend(backend) == IF backend = "bq" THEN "mongo" ELSE "bq"

\* C4: for the same events and the same options, the result a metric of one
\* backend returns is a result the same metric of the other backend returns:
\* the same scalar, or the same rows in the same order.
C4_BackendsAgree ==
    (/\ call # NoCall
     /\ call.status = "returned"
     /\ call.id # "undefined"
     /\ call.failure = "none")
    => call.value.result \in
           ResultsOf(OtherBackend(call.backend), call.op, store, call.options, now)

----------------------------------------------------------------------------
(* Properties of the filters *)

AppFilters == {"bq.app", "mongo.app"}

\* the verdict of a filter of either backend on a row
Admits(filter, queryOptions, clock, r) ==
    CASE filter = "bq.app" -> BQ_AppFilterAdmits(queryOptions, clock, r)
      [] filter = "mongo.app" -> Mongo_AppFilterAdmits(queryOptions, r)
      [] filter = "bq.ingest" -> BQ_IngestFilterAdmits(queryOptions, clock, r)
      [] filter = "mongo.ingest" -> Mongo_IngestFilterAdmits(queryOptions, r)

OptionalKeys(queryOptions) == (DOMAIN queryOptions.filter_options) \ {"from", "to"}

\* the options with only the optional fields of K kept
Only(queryOptions, K) ==
    [queryOptions EXCEPT !.filter_options =
        [k \in {"from", "to"} \cup (K \cap OptionalKeys(queryOptions)) |->
            queryOptions.filter_options[k]]]

\* the options with mobile set to b
WithMobile(queryOptions, b) ==
    [queryOptions EXCEPT !.filter_options =
        ("mobile" :> b) @@ Without(queryOptions.filter_options, "mobile")]

InRequestedRange(r, queryOptions) ==
    /\ queryOptions.filter_options.from <= r.dt
    /\ r.dt < queryOptions.filter_options.to

DateOf(t) == t \div MsPerDay

\* the end of the range is later than the clock minus 25 hours
EndsInLast25Hours(queryOptions, clock) ==
    queryOptions.filter_options.to > clock - 25 * MsPerHour

InPartitionWindow(r, queryOptions) ==
    /\ DateOf(queryOptions.filter_options.from) <= r.partition
    /\ r.partition <= DateOf(queryOptions.filter_options.to)

\* C5: in both backends a row without a partition key whose timestamp is in
\* [from, to) is admitted when `to` is later than now minus 25 hours and
\* rejected otherwise; a row with a partition key is admitted only if its
\* partition date lies between the dates of `from` and `to`.
C5_PartitionBufferRule ==
    (admitted.filter # "none" /\ OptionalKeys(opts) = {})
    => /\ (row.partition = NoPartition /\ InRequestedRange(row, opts))
              => (admitted.result <=> EndsInLast25Hours(opts, now))
       /\ (row.partition # NoPartition /\ admitted.result)
              => InPartitionWindow(row, opts)

\* C6: in both backends, for the application and the ingest-endpoint filter,
\* the time clause is half-open: no row outside [from, to) is admitted
\* whatever optional filters are set, and with no optional filter a row the
\* partition rule lets through is admitted exactly when from <= dt < to.
C6_TimeClauseHalfOpen ==
    admitted.filter # "none"
    => /\ admitted.result => InRequestedRange(row, opts)
       /\ (/\ OptionalKeys(opts) = {}
           /\ InRequestedRange(row, opts)
           /\ \/ row.partition # NoPartition /\ InPartitionWindow(row, opts)
              \/ row.partition = NoPartition /\ EndsInLast25Hours(opts, now))
              => admitted.result

\* C7: in both backends the application filter admits a row exactly when the
\* filter of the range alone admits it and, for every optional field that is
\* present, the filter of the range and that field alone admits it.
C7_FieldsConstrainIndependently ==
    admitted.filter \in AppFilters
    => (admitted.result <=>
           /\ Admits(admitted.filter, Only(opts, {}), now, row)
           /\ \A k \in OptionalKeys(opts) :
                 Admits(admitted.filter, Only(opts, {k}), now, row))

\* the five signals of a mobile row
MobileSignals(r) ==
    \/ Has(r, "browser_name") /\ Contains(r.browser_name, Mobile)
    \/ Has(r, "device_name") /\ r.device_name = IPhone
    \/ Has(r, "device_name") /\ r.device_name = IPad
    \/ Has(r, "os_name") /\ r.os_name = IOS
    \/ Has(r, "os_name") /\ r.os_name = Android

\* C8: in both backends the filter with mobile = true admits a row exactly
\* when the filter without it admits the row and one of the five signals
\* holds: browser_name contains "Mobile", device_name is "iPhone" or "iPad",
\* os_name is "iOS" or "Android".
C8_MobileTrueIsFiveSignals ==
    (/\ admitted.filter \in AppFilters
     /\ OptionalKeys(opts) = {"mobile"}
     /\ opts.filter_options.mobile = TRUE)
    => (admitted.result <=>
           Admits(admitted.filter, Only(opts, {}), now, row) /\ MobileSignals(row))

\* C9: in both backends, all other filters equal, mobile = false admits
\* exactly the rows that mobile unset admits and mobile = true does not.
C9_MobileFalseIsComplement ==
    (/\ admitted.filter \in AppFilters
     /\ "mobile" \in OptionalKeys(opts)
     /\ opts.filter_options.mobile = FALSE)
    => (admitted.result <=>
           /\ Admits(admitted.filter, Only(opts, OptionalKeys(opts) \ {"mobile"}), now, row)
           /\ ~Admits(admitted.filter, WithMobile(opts, TRUE), now, row))

\* the column a url filter reads
UrlColumn(key) == IF key = "referrer" THEN "referrer_url" ELSE "page_url"

\* C10: in both backends, with referrer (or page) set to s, a row is admitted
\* exactly when the filter without it admits the row and the row's
\* referrer_url (or page_url) contains s as a substring.
C10_UrlFilterIsSubstring ==
    \A key \in {"referrer", "page"} :
        (admitted.filter \in AppFilters /\ OptionalKeys(opts) = {key})
        => (admitted.result <=>
               /\ Admits(admitted.filter, Only(opts, {}), now, row)
               /\ Has(row, UrlColumn(key))
               /\ Contains(row[UrlColumn(key)], opts.filter_options[key]))

\* the domain derived from the row's referrer_url is d
DerivedDomainIs(r, d) ==
    /\ Has(r, "referrer_url")
    /\ RegDomainText(r.referrer_url) # NullText
    /\ RegDomainText(r.referrer_url) = d

\* C11: in both backends, with referrer_tld set to d, a row is admitted
\* exactly when the filter without it admits the row and the domain derived
\* from the row's referrer_url equals d.
C11_ReferrerTldIsDerivedDomain ==
    (admitted.filter \in AppFilters /\ OptionalKeys(opts) = {"referrer_tld"})
    => (admitted.result <=>
           /\ Admits(admitted.filter, Only(opts, {}), now, row)
           /\ DerivedDomainIs(row, opts.filter_options.referrer_tld))

----------------------------------------------------------------------------
(* getFormatForTimeSlice applied to the options of a call *)

\* the five declared values and values outside the enum
TimeSliceInputs == TimeSlices \cup {"WEEK", "QUARTER", "SECOND", "day", ""}

FormatCases ==
    {[time_slice |-> ts, filter_options |-> fo, limit |-> l] :
        ts \in TimeSliceInputs, fo \in CallRanges, l \in {1, 10000}}

\* what the caller of getFormatForTimeSlice gets: the format, or the error
FormatOutcome(backend, options, format) ==
    IF format = UnsupportedTimeSlice
    THEN [backend |-> backend, op |-> "getFormatForTimeSlice", options |-> options,
          status |-> "raised", error |-> UnsupportedTimeSlice]
    ELSE [backend |-> backend, op |-> "getFormatForTimeSlice", options |-> options,
          status |-> "returned", value |-> format]

InitFormat ==
    /\ opts \in FormatCases
    /\ now = CallClock
    /\ usageIngestEndpointEnvironmentId = [e \in Entities |-> "undefined"]
    /\ store = {}
    /\ bigQuery = "undefined"
    /\ call = NoCall
    /\ row = BaseRow
    /\ admitted = NoVerdict
    /\ calls = NoCalls
    /\ constructed = 0
    /\ datasets = {}
    /\ attempts = NoAttempts

BQ_applyFormatForTimeSlice ==
    /\ call = NoCall
    /\ call' = FormatOutcome("bq", opts, getFormatForTimeSlice(opts))
    /\ UNCHANGED <<datasets, attempts, calls, constructed, now, usageIngestEndpointEnvironmentId, store, bigQuery, row, opts, admitted>>

Mongo_applyFormatForTimeSlice ==
    /\ call = NoCall
    /\ call' = FormatOutcome("mongo", opts, Mongo_getFormatForTimeSlice(opts))
    /\ UNCHANGED <<datasets, attempts, calls, constructed, now, usageIngestEndpointEnvironmentId, store, bigQuery, row, opts, admitted>>

NextFormat ==
    \/ BQ_applyFormatForTimeSlice
    \/ Mongo_applyFormatForTimeSlice
    \/ resolve

SpecFormat == InitFormat /\ [][NextFormat]_vars

\* the format the contract gives for each declared value
DeclaredFormat(ts) ==
    CASE ts = "YEAR" -> "%Y"
      [] ts = "MONTH" -> "%Y-%m"
      [] ts = "DAY" -> "%Y-%m-%d"
      [] ts = "HOUR" -> "%Y-%m-%d %H:00:00"
      [] ts = "MINUTE" -> "%Y-%m-%d %H:%M:00"

\* C12: in both backends getFormatForTimeSlice returns the declared format
\* for YEAR, MONTH, DAY, HOUR and MINUTE (so the same in both backends) and
\* raises 'Unsupported time slice' for any other value.
C12_FormatForTimeSlice ==
    (call # NoCall /\ call.op = "getFormatForTimeSlice")
    => IF call.options.time_slice \in {"YEAR", "MONTH", "DAY", "HOUR", "MINUTE"}
       THEN /\ call.status = "returned"
            /\ call.value = DeclaredFormat(call.options.time_slice)
       ELSE /\ call.status = "raised"
            /\ call.error = "Unsupported time slice"

\* the document backend refuses a value outside the enum
C12_Witness ==
    /\ call # NoCall
    /\ call.op = "getFormatForTimeSlice"
    /\ call.backend = "mongo"
    /\ call.options.time_slice = "WEEK"
    /\ call.status = "raised"

----------------------------------------------------------------------------
(* Configuration errors of the metric calls *)

\* the call was made with an unsupported utms dimension or time slice
UnsupportedCall(c) ==
    \/ c.op = "utms(TERM)"
    \/ /\ c.op \in {"eventRequests", "usage", "requests", "bytes"}
       /\ c.options.time_slice \notin {"YEAR", "MONTH", "DAY", "HOUR", "MINUTE"}

\* C13: in both backends utms called with a dimension other than MEDIUM,
\* SOURCE or CAMPAIGN, and eventRequests, usage, requests and bytes called
\* with a time_slice outside the five declared values, raise an error to the
\* caller, and no query was sent to the store.
C13_UnsupportedCallRaisesUnsent ==
    (call # NoCall /\ call.op # "getFormatForTimeSlice" /\ UnsupportedCall(call))
    => (call.status = "raised" /\ ~call.sent)

\* utms of the document backend refused a fourth dimension on a bound App
C13_Witness ==
    /\ call # NoCall
    /\ call.backend = "mongo"
    /\ call.op = "utms(TERM)"
    /\ call.id # "undefined"
    /\ call.status = "raised"
    /\ call.error = UnsupportedUtmFilter

----------------------------------------------------------------------------
(* Properties of the scalar metrics *)

\* the events of the store that the backend's application filter admits
FilteredBy(backend, rows, queryOptions, clock) ==
    IF backend = "bq"
    THEN BQ_Select(rows, BQ_getAppFilter(queryOptions, clock))
    ELSE Mongo_Select(rows, Mongo_getAppFilter(queryOptions))

\* the call is a metric op that ran its query on a bound entity and returned
Answered(op) ==
    /\ call # NoCall
    /\ call.op = op
    /\ call.status = "returned"
    /\ call.id # "undefined"
    /\ call.failure = "none"

\* num / den rounded to the nearest integer, halves up
Rounded(num, den) == (2 * num + den) \div (2 * den)

\* latest minus earliest timestamp of a user, in milliseconds
SpanOf(rows, u) ==
    SetMax({r.dt : r \in RowsOfUser(rows, u)}) - SetMin({r.dt : r \in RowsOfUser(rows, u)})

\* the rounded mean, in seconds, of the positive spans; 0 without any
MeanSessionSeconds(rows) ==
    LET users == {u \in UsersOf(rows) : SpanOf(rows, u) > 0}
    IN  IF users = {} THEN 0
        ELSE Rounded(SumOver(users, [u \in users |-> SpanOf(rows, u)]),
                     1000 * Cardinality(users))

\* C14: in both backends averageSessionDuration returns the mean, rounded to
\* the nearest integer and in seconds, of (latest - earliest timestamp) over
\* the users whose filtered events span more than zero time, and 0 when no
\* user qualifies.
C14_MeanSessionDuration ==
    Answered("averageSessionDuration")
    => call.value.result =
           MeanSessionSeconds(FilteredBy(call.backend, store, call.options, now))

\* C15: in both backends averageSessionDuration returns 0 whenever every
\* user has exactly one event among the filtered events, and when there is
\* no filtered event.
C15_SingleEventUsersGiveZero ==
    Answered("averageSessionDuration")
    => LET sel == FilteredBy(call.backend, store, call.options, now)
       IN  (\A u \in UsersOf(sel) : Cardinality(RowsOfUser(sel, u)) = 1)
           => call.value.result = 0

\* the columnar backend answered 0 for two users with one filtered event each
C15_Witness ==
    /\ Answered("averageSessionDuration")
    /\ call.backend = "bq"
    /\ LET sel == FilteredBy("bq", store, call.options, now)
       IN  /\ Cardinality(UsersOf(sel)) = 2
           /\ \A u \in UsersOf(sel) : Cardinality(RowsOfUser(sel, u)) = 1
    /\ call.value.result = 0

\* the number of events of a user
EventCount(rows, u) == Cardinality(RowsOfUser(rows, u))

\* C16: in both backends bounceRatio returns the number of users with
\* exactly one filtered event divided by the number of distinct users with a
\* filtered event, rounded to the nearest integer (1/2 gives 1).
C16_BounceRatioOverUsers ==
    Answered("bounceRatio")
    => LET sel   == FilteredBy(call.backend, store, call.options, now)
           users == UsersOf(sel)
       IN  users # {}
           => call.value.result =
                  Rounded(Cardinality({u \in users : EventCount(sel, u) = 1}),
                          Cardinality(users))

\* the data sets a store can hold
Stores == UpTo(StoreRows, MaxRows)

\* the multiset of per-user event counts: each count with its number of users
CountBag(rows) ==
    {<<n, Cardinality({u \in UsersOf(rows) : EventCount(rows, u) = n})>> :
        n \in {EventCount(rows, u) : u \in UsersOf(rows)}}

\* C17: in both backends bounceRatio depends only on the multiset of
\* per-user counts of filtered events: any data set with the same multiset
\* gives the same result under the same options, whatever its timestamps.
C17_BounceRatioDependsOnCounts ==
    Answered("bounceRatio")
    => LET bqFilter == BQ_getAppFilter(call.options, now)
           mgFilter == Mongo_getAppFilter(call.options)
           admits   == IF call.backend = "bq" THEN BQ_Select(StoreRows, bqFilter)
                       ELSE Mongo_Select(StoreRows, mgFilter)
           bag      == CountBag(store \cap admits)
       IN  \A other \in Stores :
              CountBag(other \cap admits) = bag
              => call.value.result =
                     IF call.backend = "bq"
                     THEN BQ_Shape("bounceRatio", BQ_bounceRatioRows(other, bqFilter))
                     ELSE Mongo_Shape("bounceRatio", Mongo_bounceRatioRows(other, mgFilter))

\* a bounce ratio over one bouncing user and one user with two events, which
\* another data set with other timestamps shares
C17_Witness ==
    /\ Answered("bounceRatio")
    /\ LET sel == FilteredBy(call.backend, store, call.options, now)
       IN  /\ CountBag(sel) = {<<1, 1>>, <<2, 1>>}
           /\ \E other \in Stores :
                 LET osel == FilteredBy(call.backend, other, call.options, now)
                 IN  /\ CountBag(osel) = CountBag(sel)
                     /\ {r.dt : r \in osel} # {r.dt : r \in sel}

----------------------------------------------------------------------------
(* The rankings by a user's first or last event: referrers, referrerTlds   *)
(* and pages                                                               *)

\* SELECT user_hash AS uh, MIN(dt) | MAX(dt) AS dtx ... GROUP BY user_hash
BQ_UserInstant(sel, agg, u) ==
    IF agg = "MIN" THEN SetMin({r.dt : r \in RowsOfUser(sel, u)})
    ELSE SetMax({r.dt : r \in RowsOfUser(sel, u)})

\* ( ... WHERE filter GROUP BY user_hash ) AS fq JOIN table AS ds
\* ON fq.uh = ds.user_hash AND fq.dtx = ds.dt WHERE filter AND col <> ""
BQ_JoinOnInstant(rows, filter, agg, col) ==
    LET sel == BQ_Select(rows, filter)
    IN  {r \in sel : /\ r.dt = BQ_UserInstant(sel, agg, r.user_hash)
                     /\ Has(r, col)
                     /\ r[col] # <<>>}

BQ_referrersRows(rows, filter, queryOptions) ==
    {Limit(q, queryOptions.limit) :
        q \in SortedByUserCountDesc(
                  BQ_GroupByColumn(BQ_JoinOnInstant(rows, filter, "MIN", "referrer_url"),
                                   "referrer_url"))}

\* the key is REPLACE(FORMAT("%T", NET.REG_DOMAIN(referrer_url)), "\"", "")
BQ_referrerTldsRows(rows, filter, queryOptions) ==
    LET keyed == {("key" :> RegDomainText(r.referrer_url)) @@ r :
                     r \in BQ_JoinOnInstant(rows, filter, "MIN", "referrer_url")}
    IN  {Limit(q, queryOptions.limit) :
            q \in SortedByUserCountDesc(BQ_GroupByColumn(keyed, "key"))}

\* pages: without a page filter every event with a page counts; with one,
\* the events at the user's MIN(dt) for ENTRY and MAX(dt) for EXIT
BQ_pagesRows(rows, filter, queryOptions, pageFilter) ==
    LET sel == IF pageFilter = "undefined"
               THEN {r \in BQ_Select(rows, filter) :
                        Has(r, "page_url") /\ r.page_url # <<>>}
               ELSE BQ_JoinOnInstant(rows, filter,
                                     IF pageFilter = "ENTRY" THEN "MIN" ELSE "MAX",
                                     "page_url")
    IN  {Limit(q, queryOptions.limit) :
            q \in SortedByUserCountDesc(BQ_GroupByColumn(sel, "page_url"))}

\* $match: {...getAppFilter(queryOptions), key: {$exists: true}}
Mongo_ExistsMatch(queryOptions, key) ==
    (key :> [op |-> "exists"]) @@ Mongo_getAppFilter(queryOptions)

\* $sort {dt: -1}: latest first, documents of one instant in any order
Mongo_SortedByDtDesc(S) ==
    {q \in Orderings(S) : \A i \in 1..(Len(q) - 1) : q[i].dt >= q[i + 1].dt}

\* $group {_id: '$user_hash', value: {$first | $last: '$field'},
\* event_count: {$sum: 1}} over the sorted documents
Mongo_GroupByUser(q, field, accumulator) ==
    {LET at == {i \in 1..Len(q) : q[i].user_hash = u}
     IN  [id |-> u,
          value |-> q[IF accumulator = "$first" THEN SetMin(at) ELSE SetMax(at)][field],
          event_count |-> Cardinality(at)] :
        u \in {q[i].user_hash : i \in 1..Len(q)}}

\* $group {_id: '$value', user_count: {$sum: 1}, event_count: {$sum:
\* '$event_count'}} and $project key
Mongo_GroupByValue(groups) ==
    {LET of == {g \in groups : g.value = v}
     IN  [key |-> v,
          user_count |-> Cardinality(of),
          event_count |-> SumOver(of, [g \in of |-> g.event_count])] :
        v \in {g.value : g \in groups}}

\* the pipelines that rank by one document per user, up to their last $sort
Mongo_RankByUserRows(docs, field, accumulator) ==
    UNION {SortedByUserCountDesc(Mongo_GroupByValue(Mongo_GroupByUser(q, field, accumulator))) :
              q \in Mongo_SortedByDtDesc(docs)}

Mongo_referrersRows(docs, queryOptions) ==
    Mongo_RankByUserRows(
        Mongo_Select(docs, Mongo_ExistsMatch(queryOptions, "referrer_url")),
        "referrer_url", "$first")

Http == <<"h", "t", "t", "p">>

\* where the text after http:// or https:// starts when one of them starts
\* at i, or 0
Mongo_AfterScheme(url, i) ==
    IF i + 6 <= Len(url) /\ SubSeq(url, i, i + 6) = Http \o <<":", "/", "/">>
    THEN i + 7
    ELSE IF i + 7 <= Len(url) /\ SubSeq(url, i, i + 7) = Http \o <<"s", ":", "/", "/">>
    THEN i + 8
    ELSE 0

\* $regexFind with /https?:\/\/([^/]+)/: the first capture of the leftmost
\* match, or <<>> when the regex does not match (null)
Mongo_regexFind(url) ==
    LET starts == {i \in 1..Len(url) :
                      /\ Mongo_AfterScheme(url, i) # 0
                      /\ Mongo_AfterScheme(url, i) <= Len(url)
                      /\ url[Mongo_AfterScheme(url, i)] # "/"}
    IN  IF starts = {} THEN <<>>
        ELSE LET p == Mongo_AfterScheme(url, SetMin(starts))
             IN  SubSeq(url, p, IndexOfAny(url, {"/"}, p) - 1)

\* referrerTlds: tld is the capture, documents without a match are dropped
Mongo_referrerTldsRows(docs, queryOptions) ==
    LET sel   == Mongo_Select(docs, Mongo_ExistsMatch(queryOptions, "referrer_url"))
        found == {d \in sel : Mongo_regexFind(d.referrer_url) # <<>>}
        keyed == {("tld" :> Mongo_regexFind(d.referrer_url)) @@ d : d \in found}
    IN  Mongo_RankByUserRows(keyed, "tld", "$first")

\* pages: without a page filter $group {key, user_hash} and $group key; with
\* one, $first for ENTRY and $last for EXIT of the documents sorted by dt: -1
Mongo_pagesRows(docs, queryOptions, pageFilter) ==
    LET sel == Mongo_Select(docs, Mongo_ExistsMatch(queryOptions, "page_url"))
    IN  IF pageFilter = "undefined"
        THEN SortedByUserCountDesc(Mongo_GroupByField(sel, "page_url"))
        ELSE Mongo_RankByUserRows(sel, "page_url",
                                  IF pageFilter = "ENTRY" THEN "$first" ELSE "$last")

PageFilters == {"undefined", "ENTRY", "EXIT"}

\* the name a pages call is recorded under
PagesOp(pageFilter) ==
    CASE pageFilter = "ENTRY" -> "pages(ENTRY)"
      [] pageFilter = "EXIT" -> "pages(EXIT)"
      [] OTHER -> "pages"

\* the events of the ranking stores: two users, three instants, and the
\* referrer and the page of the event
TouchRows ==
    LET known == {[BaseRow EXCEPT !.user_hash = u, !.dt = t, !.partition = FormatDate(t),
                                  !.referrer_url = p[1], !.page_url = p[2]] :
                     u \in {"u1", "u2"}, t \in {200, 1000, 3000},
                     p \in {<<Url1, Url2>>, <<Url2, Url1>>, <<<<>>, Url1>>}}
    IN  known \cup {Without(r, "referrer_url") : r \in {k \in known : k.referrer_url = <<>>}}

TouchCallOptions ==
    {[time_slice |-> "DAY", filter_options |-> fo, limit |-> l] :
        fo \in CallRanges, l \in {1, 10000}}

InitTouch ==
    /\ now = CallClock
    /\ usageIngestEndpointEnvironmentId = [e \in Entities |-> "undefined"]
    /\ store \in UpTo(TouchRows, MaxRows)
    /\ bigQuery = "undefined"
    /\ call = NoCall
    /\ row = BaseRow
    /\ opts = QueryOptionsOf([from |-> 0, to |-> 1 * MsPerDay])
    /\ admitted = NoVerdict
    /\ calls = NoCalls
    /\ constructed = 0
    /\ datasets = {}
    /\ attempts = NoAttempts

BQ_referrers ==
    /\ call = NoCall
    /\ \E queryOptions \in TouchCallOptions, failure \in Failures :
          BQ_Metric("referrers", "App", queryOptions, failure,
                    BQ_referrersRows(store, BQ_getAppFilter(queryOptions, now), queryOptions))
    /\ UNCHANGED <<datasets, attempts, calls, constructed, now, usageIngestEndpointEnvironmentId, store, row, opts, admitted>>

BQ_referrerTlds ==
    /\ call = NoCall
    /\ \E queryOptions \in TouchCallOptions, failure \in Failures :
          BQ_Metric("referrerTlds", "App", queryOptions, failure,
                    BQ_referrerTldsRows(store, BQ_getAppFilter(queryOptions, now), queryOptions))
    /\ UNCHANGED <<datasets, attempts, calls, constructed, now, usageIngestEndpointEnvironmentId, store, row, opts, admitted>>

BQ_pages ==
    /\ call = NoCall
    /\ \E queryOptions \in TouchCallOptions, pageFilter \in PageFilters, failure \in Failures :
          BQ_Metric(PagesOp(pageFilter), "App", queryOptions, failure,
                    BQ_pagesRows(store, BQ_getAppFilter(queryOptions, now), queryOptions,
                                 pageFilter))
    /\ UNCHANGED <<datasets, attempts, calls, constructed, now, usageIngestEndpointEnvironmentId, store, row, opts, admitted>>

Mongo_referrers ==
    /\ call = NoCall
    /\ \E queryOptions \in TouchCallOptions, failure \in Failures :
          Mongo_Metric("referrers", "App", queryOptions, failure,
                       Mongo_referrersRows(store, queryOptions), queryOptions.limit)
    /\ UNCHANGED <<datasets, attempts, calls, constructed, now, usageIngestEndpointEnvironmentId, store, row, opts, admitted>>

Mongo_referrerTlds ==
    /\ call = NoCall
    /\ \E queryOptions \in TouchCallOptions, failure \in Failures :
          Mongo_Metric("referrerTlds", "App", queryOptions, failure,
                       Mongo_referrerTldsRows(store, queryOptions), queryOptions.limit)
    /\ UNCHANGED <<datasets, attempts, calls, constructed, now, usageIngestEndpointEnvironmentId, store, row, opts, admitted>>

Mongo_pages ==
    /\ call = NoCall
    /\ \E queryOptions \in TouchCallOptions, pageFilter \in PageFilters, failure \in Failures :
          Mongo_Metric(PagesOp(pageFilter), "App", queryOptions, failure,
                       Mongo_pagesRows(store, queryOptions, pageFilter), queryOptions.limit)
    /\ UNCHANGED <<datasets, attempts, calls, constructed, now, usageIngestEndpointEnvironmentId, store, row, opts, admitted>>

NextTouch ==
    \/ resolve
    \/ createApp
    \/ BQ_referrers
    \/ BQ_referrerTlds
    \/ BQ_pages
    \/ Mongo_referrers
    \/ Mongo_referrerTlds
    \/ Mongo_pages

SpecTouch == InitTouch /\ [][NextTouch]_vars

----------------------------------------------------------------------------
(* Properties of the rankings by first or last event *)

\* no two filtered events of one user are at the same instant
DistinctInstants(sel) ==
    \A r1, r2 \in sel : (r1.user_hash = r2.user_hash /\ r1.dt = r2.dt) => r1 = r2

\* the earliest or the latest event of a user
TouchOf(sel, u, which) ==
    CHOOSE r \in RowsOfUser(sel, u) :
        \A o \in RowsOfUser(sel, u) :
            IF which = "earliest" THEN r.dt <= o.dt ELSE r.dt >= o.dt

\* the column a ranking reads
TouchColumn(op) == IF op \in {"referrers", "referrerTlds"} THEN "referrer_url" ELSE "page_url"

\* the event carries a value the ranking can key: an url with a host that
\* has a registrable domain
Carries(op, r) ==
    /\ Has(r, TouchColumn(op))
    /\ r[TouchColumn(op)] # <<>>
    /\ RegDomainText(r[TouchColumn(op)]) # NullText

\* the key an event is ranked under: the url, or the domain the backend
\* derives from it
TouchKey(backend, op, r) ==
    IF op # "referrerTlds" THEN r[TouchColumn(op)]
    ELSE IF backend = "bq" THEN RegDomainText(r.referrer_url)
    ELSE Mongo_regexFind(r.referrer_url)

\* each key with the number of users whose earliest (latest) event has it
UsersByTouch(backend, op, sel, which) ==
    {[key |-> k,
      user_count |-> Cardinality({u \in UsersOf(sel) :
                                     TouchKey(backend, op, TouchOf(sel, u, which)) = k})] :
        k \in {TouchKey(backend, op, TouchOf(sel, u, which)) : u \in UsersOf(sel)}}

\* the keys of a returned ranking with their user counts
UserCounts(result) ==
    {[key |-> result[i].key, user_count |-> result[i].user_count] : i \in DOMAIN result}

\* the returned ranking counts every user under the key of the event the
\* user has at that end, when every filtered event carries a value, the
\* instants of a user are distinct and the limit cuts nothing
RanksBy(op, which) ==
    Answered(op)
    => LET sel      == FilteredBy(call.backend, store, call.options, now)
           expected == UsersByTouch(call.backend, op, sel, which)
       IN  (/\ DistinctInstants(sel)
            /\ \A r \in sel : Carries(op, r)
            /\ Cardinality(expected) <= call.options.limit)
           => UserCounts(call.value.result) = expected

\* C18: in both backends referrers and referrerTlds count each user, whose
\* events are at pairwise distinct instants, under the referrer (or its
\* derived domain) of the user's earliest filtered event: a user with
\* referrer R1 at t1 and R2 at a later t2 is counted under R1 and not under R2.
C18_ReferrersRankEarliest ==
    RanksBy("referrers", "earliest") /\ RanksBy("referrerTlds", "earliest")

\* C19: in both backends pages('ENTRY') counts each user, whose events are
\* at pairwise distinct instants, under the page_url of the user's earliest
\* filtered event and pages('EXIT') under that of the latest: a user with
\* pages A at t1 and B at a later t2 is counted by ENTRY under A only and by
\* EXIT under B only.
C19_PagesRankEntryAndExit ==
    RanksBy("pages(ENTRY)", "earliest") /\ RanksBy("pages(EXIT)", "latest")

----------------------------------------------------------------------------
(* GoogleCloudBigQuery.getBigQuery under concurrent calls: each await of   *)
(* the source is a point where another call can run                        *)

\* the object the n-th `new BigQuery(...)` builds
NewBigQuery(n) ==
    <<"BigQuery#1", "BigQuery#2", "BigQuery#3", "BigQuery#4",
      "BigQuery#5", "BigQuery#6", "BigQuery#7", "BigQuery#8">>[n]

InitClient ==
    /\ now = CallClock
    /\ usageIngestEndpointEnvironmentId = [e \in Entities |-> "undefined"]
    /\ store = {}
    /\ bigQuery = "undefined"
    /\ call = NoCall
    /\ row = BaseRow
    /\ opts = QueryOptionsOf([from |-> 0, to |-> 1 * MsPerDay])
    /\ admitted = NoVerdict
    /\ calls = NoCalls
    /\ constructed = 0
    /\ datasets = {}
    /\ attempts = NoAttempts

\* a metric reaches query(): it is about to call getBigQuery once
query(c) ==
    /\ calls[c].pc = "idle"
    /\ calls' = [calls EXCEPT ![c] = [kind |-> "query", pc |-> "getBigQuery", left |-> 1,
                                      early |-> bigQuery = "undefined", used |-> {}]]
    /\ UNCHANGED <<datasets, attempts, now, usageIngestEndpointEnvironmentId, store, bigQuery, call, row, opts,
                   admitted, constructed>>

\* configure(): createDatasetIfNotExists runs twice, each calls getBigQuery
configure(c) ==
    /\ calls[c].pc = "idle"
    /\ calls' = [calls EXCEPT ![c] = [kind |-> "configure", pc |-> "getBigQuery", left |-> 2,
                                      early |-> bigQuery = "undefined", used |-> {}]]
    /\ UNCHANGED <<datasets, attempts, now, usageIngestEndpointEnvironmentId, store, bigQuery, call, row, opts,
                   admitted, constructed>>

\* getBigQuery: the test `this.bigQuery === undefined`; when it fails the
\* handle is returned at once, otherwise the call awaits getGCKeyFile()
getBigQuery_test(c) ==
    /\ calls[c].pc = "getBigQuery"
    /\ calls' = IF bigQuery = "undefined"
                THEN [calls EXCEPT ![c].pc = "getGCKeyFile"]
                ELSE [calls EXCEPT ![c].pc = "bq", ![c].used = @ \cup {bigQuery}]
    /\ UNCHANGED <<datasets, attempts, now, usageIngestEndpointEnvironmentId, store, bigQuery, call, row, opts,
                   admitted, constructed>>

\* getGCKeyFile() has resolved: the call awaits getGCProjectId()
getGCKeyFile(c) ==
    /\ calls[c].pc = "getGCKeyFile"
    /\ calls' = [calls EXCEPT ![c].pc = "getGCProjectId"]
    /\ UNCHANGED <<datasets, attempts, now, usageIngestEndpointEnvironmentId, store, bigQuery, call, row, opts,
                   admitted, constructed>>

\* getGCProjectId() has resolved: new BigQuery(...) is assigned to
\* this.bigQuery and returned
getGCProjectId(c) ==
    /\ calls[c].pc = "getGCProjectId"
    /\ constructed' = constructed + 1
    /\ bigQuery' = NewBigQuery(constructed + 1)
    /\ calls' = [calls EXCEPT ![c].pc = "bq", ![c].used = @ \cup {NewBigQuery(constructed + 1)}]
    /\ UNCHANGED <<datasets, attempts, now, usageIngestEndpointEnvironmentId, store, call, row, opts, admitted>>

\* the awaited use of the handle (createQueryJob, dataset(name).exists())
\* has resolved: configure goes on to its second data set, query is done
useBigQuery(c) ==
    /\ calls[c].pc = "bq"
    /\ calls' = IF calls[c].left > 1
                THEN [calls EXCEPT ![c].pc = "getBigQuery", ![c].left = @ - 1]
                ELSE [calls EXCEPT ![c].pc = "done", ![c].left = 0]
    /\ UNCHANGED <<datasets, attempts, now, usageIngestEndpointEnvironmentId, store, bigQuery, call, row, opts,
                   admitted, constructed>>

NextClient ==
    \E c \in Callers :
        \/ query(c)
        \/ configure(c)
        \/ getBigQuery_test(c)
        \/ getGCKeyFile(c)
        \/ getGCProjectId(c)
        \/ useBigQuery(c)

SpecClient == InitClient /\ [][NextClient]_vars

\* the handles used by the calls that arrived before a handle existed
EarlyHandles == UNION {calls[c].used : c \in {d \in Callers : calls[d].early}}

\* C20: for one columnar backend instance, under any interleaving of
\* concurrent metric or configure calls that arrive before the client
\* handle exists, the handle is constructed at most once and every such
\* call uses that same handle.
C20_HandleConstructedOnce ==
    /\ constructed <= 1
    /\ Cardinality(EarlyHandles) <= 1

----------------------------------------------------------------------------
(* configure(): GoogleCloudBigQuery creates the two datasets that do not   *)
(* exist, MongoDb does nothing                                             *)

\* the data set a configure() call is working on: getDataSetName() first,
\* getAnalyticsDataSetName() second
NameOf(c) == IF calls[c].left = 2 THEN "DataSetName" ELSE "AnalyticsDataSetName"

InFlight(c) == calls[c].pc \notin {"idle", "done", "failed"}

InitConfigure ==
    /\ now = CallClock
    /\ usageIngestEndpointEnvironmentId = [e \in Entities |-> "undefined"]
    /\ store = {}
    /\ bigQuery = "undefined"
    /\ call = NoCall
    /\ row = BaseRow
    /\ opts = QueryOptionsOf([from |-> 0, to |-> 1 * MsPerDay])
    /\ admitted = NoVerdict
    /\ calls = NoCalls
    /\ constructed = 0
    /\ datasets \in SUBSET DataSetNames
    /\ attempts = NoAttempts

\* the record of a configure() call that awaits the name of its first data set
Configuring ==
    [kind |-> "configure", pc |-> "getDataSetName", left |-> 2,
     early |-> bigQuery = "undefined", used |-> {}]

\* configure() is called while no other call of the instance is in flight
configureAlone(c) ==
    /\ calls[c].pc = "idle"
    /\ \A d \in Callers : ~InFlight(d)
    /\ calls' = [calls EXCEPT ![c] = Configuring]
    /\ UNCHANGED <<now, usageIngestEndpointEnvironmentId, store, bigQuery, call, row, opts,
                   admitted, constructed, datasets, attempts>>

\* configure() is called whatever the other calls are doing
configureAmong(c) ==
    /\ calls[c].pc = "idle"
    /\ calls' = [calls EXCEPT ![c] = Configuring]
    /\ UNCHANGED <<now, usageIngestEndpointEnvironmentId, store, bigQuery, call, row, opts,
                   admitted, constructed, datasets, attempts>>

\* await this.config.getDataSetName() / getAnalyticsDataSetName() has
\* resolved: createDatasetIfNotExists(name) starts with getBigQuery()
getDataSetName(c) ==
    /\ calls[c].pc = "getDataSetName"
    /\ calls' = [calls EXCEPT ![c].pc = "getBigQuery"]
    /\ UNCHANGED <<now, usageIngestEndpointEnvironmentId, store, bigQuery, call, row, opts,
                   admitted, constructed, datasets, attempts>>

\* createDatasetIfNotExists is through with its data set: configure goes on
\* to the analytics data set, or returns
Through(c) ==
    IF calls[c].left > 1
    THEN [calls EXCEPT ![c].pc = "getDataSetName", ![c].left = @ - 1]
    ELSE [calls EXCEPT ![c].pc = "done", ![c].left = 0]

\* a variant of the existence test that never finds the data set
dataset_exists_Never(c) ==
    /\ calls[c].pc = "bq"
    /\ calls' = [calls EXCEPT ![c].pc = "createDataset"]
    /\ UNCHANGED <<now, usageIngestEndpointEnvironmentId, store, bigQuery, call, row, opts,
                   admitted, constructed, datasets, attempts>>

\* const [exists] = await bq.dataset(name).exists(); if (!exists) ...
dataset_exists(c) ==
    /\ calls[c].pc = "bq"
    /\ calls' = IF NameOf(c) \in datasets
                THEN Through(c)
                ELSE [calls EXCEPT ![c].pc = "createDataset"]
    /\ UNCHANGED <<now, usageIngestEndpointEnvironmentId, store, bigQuery, call, row, opts,
                   admitted, constructed, datasets, attempts>>

\* await bq.createDataset(name, {location: 'EU'}): the project creates the
\* data set, or rejects the request when a data set of that name exists, and
\* then configure() rejects
createDataset(c) ==
    /\ calls[c].pc = "createDataset"
    /\ attempts' = [attempts EXCEPT ![NameOf(c)] = @ + 1]
    /\ IF NameOf(c) \in datasets
       THEN /\ calls' = [calls EXCEPT ![c].pc = "failed"]
            /\ datasets' = datasets
       ELSE /\ calls' = Through(c)
            /\ datasets' = datasets \cup {NameOf(c)}
    /\ UNCHANGED <<now, usageIngestEndpointEnvironmentId, store, bigQuery, call, row, opts,
                   admitted, constructed>>

\* MongoDb.configure: the body is empty
Mongo_configure ==
    /\ call = NoCall
    /\ call' = [backend |-> "mongo", op |-> "configure", status |-> "returned"]
    /\ UNCHANGED <<now, usageIngestEndpointEnvironmentId, store, bigQuery, row, opts,
                   admitted, calls, constructed, datasets, attempts>>

\* configure() calls that come one after the other
NextConfigure ==
    \/ resolve
    \/ Mongo_configure
    \/ \E c \in Callers :
          \/ configureAlone(c)
          \/ getDataSetName(c)
          \/ getBigQuery_test(c)
          \/ getGCKeyFile(c)
          \/ getGCProjectId(c)
          \/ dataset_exists(c)
          \/ createDataset(c)

SpecConfigure == InitConfigure /\ [][NextConfigure]_vars

\* configure() calls that overlap
NextConfigureRace ==
    \E c \in Callers :
        \/ configureAmong(c)
        \/ getDataSetName(c)
        \/ getBigQuery_test(c)
        \/ getGCKeyFile(c)
        \/ getGCProjectId(c)
        \/ dataset_exists(c)
        \/ createDataset(c)

SpecConfigureRace == InitConfigure /\ [][NextConfigureRace]_vars

----------------------------------------------------------------------------
(* Properties of configure() *)

SomeConfigured == \E c \in Callers : calls[c].pc = "done"

\* C21: configure() is idempotent when called sequentially: once one
\* configure() has completed both datasets exist, and any further
\* configure() creates no dataset, does not fail and leaves the set of
\* datasets unchanged; in the document backend configure() changes nothing.
C21_ConfigureIdempotent ==
    /\ [](SomeConfigured => datasets = DataSetNames)
    /\ [][SomeConfigured => /\ datasets' = datasets
                            /\ attempts' = attempts
                            /\ \A c \in Callers : calls'[c].pc # "failed"]_vars
    /\ [][(call = NoCall /\ call' # NoCall /\ call'.backend = "mongo" /\ call'.op = "configure")
          => UNCHANGED <<store, bigQuery, calls, constructed, datasets, attempts>>]_vars

\* two configure() calls have completed one after the other on a project
\* that had no data set, and each data set got one create request
C21_Witness ==
    /\ \A c \in Callers : calls[c].pc = "done"
    /\ \A name \in DataSetNames : attempts[name] = 1
    /\ datasets = DataSetNames

\* C30: in the columnar backend, under any interleaving of concurrent
\* configure() calls starting from a state where a dataset does not exist,
\* creation of that dataset is attempted at most once, and no configure()
\* call fails because another call created the dataset between its
\* existence check and its create.
C30_DatasetCreatedOnce ==
    /\ \A name \in DataSetNames : attempts[name] <= 1
    /\ \A c \in Callers : calls[c].pc # "failed"

----------------------------------------------------------------------------
(* The time-bucketed metrics over events of several minutes and days *)

\* the events of the bucket stores: two users, two minutes of day 0 and one
\* instant of day 1, one or two requests
BucketRows ==
    {[BaseRow EXCEPT !.user_hash = u, !.dt = t, !.partition = FormatDate(t),
                     !.requests = n, !.bytes = 10 * n] :
        u \in {"u1", "u2"}, t \in {200, 60 * 1000 + 200, MsPerDay + 200}, n \in {1, 2}}

InitBuckets ==
    /\ now = CallClock
    /\ usageIngestEndpointEnvironmentId = [e \in Entities |-> "undefined"]
    /\ store \in UpTo(BucketRows, MaxRows)
    /\ bigQuery = "undefined"
    /\ call = NoCall
    /\ row = BaseRow
    /\ opts = QueryOptionsOf([from |-> 0, to |-> 1 * MsPerDay])
    /\ admitted = NoVerdict
    /\ calls = NoCalls
    /\ constructed = 0
    /\ datasets = {}
    /\ attempts = NoAttempts

NextBuckets ==
    \/ resolve
    \/ createApp
    \/ createIngestEndpoint
    \/ BQ_eventRequests
    \/ BQ_usage
    \/ BQ_requests
    \/ BQ_bytes
    \/ Mongo_eventRequests
    \/ Mongo_usage
    \/ Mongo_requests
    \/ Mongo_bytes

SpecBuckets == InitBuckets /\ [][NextBuckets]_vars

----------------------------------------------------------------------------
(* Properties of the time-bucketed metrics *)

\* the bucket of an instant: the instant formatted with the declared format
\* of the time slice
BucketOf(queryOptions, t) == FormatDateTime(DeclaredFormat(queryOptions.time_slice), t)

BucketsOf(rows, queryOptions) == {BucketOf(queryOptions, r.dt) : r \in rows}

InBucket(rows, queryOptions, k) == {r \in rows : BucketOf(queryOptions, r.dt) = k}

\* the rows of a returned list
RowsIn(result) == {result[i] : i \in DOMAIN result}

\* C22: in both backends eventRequests returns one row per time bucket that
\* contains a filtered event; user_count is the number of distinct users
\* with an event in the bucket and event_count the number of filtered events
\* in it, so the event_count values sum to the number of filtered events
\* when the limit does not truncate.
C22_EventRequestsPerBucket ==
    Answered("eventRequests")
    => LET sel     == FilteredBy(call.backend, store, call.options, now)
           buckets == BucketsOf(sel, call.options)
           result  == call.value.result
       IN  Cardinality(buckets) <= call.options.limit
           => /\ Len(result) = Cardinality(buckets)
              /\ RowsIn(result) =
                     {[key |-> k,
                       user_count |-> Cardinality(UsersOf(InBucket(sel, call.options, k))),
                       event_count |-> Cardinality(InBucket(sel, call.options, k))] :
                         k \in buckets}
              /\ SumOver(DOMAIN result, [i \in DOMAIN result |-> result[i].event_count])
                     = Cardinality(sel)

\* eventRequests by minute answered two buckets, one of them with two events
\* of one user
C22_Witness ==
    /\ Answered("eventRequests")
    /\ call.options.time_slice = "MINUTE"
    /\ Len(call.value.result) = 2
    /\ \E i \in DOMAIN call.value.result :
          /\ call.value.result[i].user_count = 1
          /\ call.value.result[i].event_count = 2

\* the events of the store that the backend's ingest-endpoint filter admits
IngestFilteredBy(backend, rows, queryOptions, clock) ==
    IF backend = "bq"
    THEN BQ_Select(rows, BQ_getIngestEndpointFilter(queryOptions, clock))
    ELSE Mongo_Select(rows, Mongo_getIngestEndpointFilter(queryOptions))

\* the sum of a counter over rows
CounterSum(rows, counter) == SumOver(rows, [r \in rows |-> r[counter]])

\* the row a bucket gives in usage, requests or bytes
SumRow(op, rows, queryOptions, k) ==
    LET in == InBucket(rows, queryOptions, k)
    IN  IF op = "usage"
        THEN [key |-> k, requests |-> CounterSum(in, "requests"),
              bytes |-> CounterSum(in, "bytes")]
        ELSE [key |-> k, count |-> CounterSum(in, op)]

\* the k greatest elements of a set of numbers
Greatest(S, k) == {x \in S : Cardinality({y \in S : y > x}) < k}

\* C25: in both backends usage, requests and bytes return one row per time
\* bucket with the sum of the requests and/or bytes counters of the rows
\* the ingest-endpoint filter admits, in strictly decreasing order of bucket
\* key, with at most `limit` rows.
C25_IngestSumsPerBucket ==
    \A op \in {"usage", "requests", "bytes"} :
        Answered(op)
        => LET sel    == IngestFilteredBy(call.backend, store, call.options, now)
               result == call.value.result
               kept   == Greatest(BucketsOf(sel, call.options), call.options.limit)
           IN  /\ Len(result) <= call.options.limit
               /\ \A i \in 1..(Len(result) - 1) : result[i].key > result[i + 1].key
               /\ RowsIn(result) = {SumRow(op, sel, call.options, k) : k \in kept}

\* usage by day with limit 1 answered the later of two days, with the
\* counters of two events added
C25_Witness ==
    /\ Answered("usage")
    /\ call.options.limit = 1
    /\ Cardinality(BucketsOf(IngestFilteredBy(call.backend, store, call.options, now),
                             call.options)) = 2
    /\ Len(call.value.result) = 1
    /\ call.value.result[1].requests = 3

----------------------------------------------------------------------------
(* The rankings by a stored field or by the device class *)

\* events, browsers, operatingSystems: SELECT col AS key, COUNT(DISTINCT
\* user_hash), SUM(1) ... WHERE filter GROUP BY key ORDER BY user_count DESC LIMIT
BQ_columnRows(rows, filter, queryOptions, col) ==
    {Limit(q, queryOptions.limit) :
        q \in SortedByUserCountDesc(BQ_GroupByColumn(BQ_Select(rows, filter), col))}

\* eventGroups: WHERE filter AND event_group IS NOT NULL
BQ_eventGroupsRows(rows, filter, queryOptions) ==
    LET sel == {r \in BQ_Select(rows, filter) : Has(r, "event_group")}
    IN  {Limit(q, queryOptions.limit) :
            q \in SortedByUserCountDesc(BQ_GroupByColumn(sel, "event_group"))}

\* a variant with the two labels exchanged
BQ_devicesRows_Swapped(rows, filter, queryOptions) ==
    LET keyed == {("key" :> IF BQ_MOBILE_TEST(r) = "T" THEN "Desktop" ELSE "Mobile") @@ r :
                     r \in BQ_Select(rows, filter)}
    IN  {Limit(q, queryOptions.limit) :
            q \in SortedByUserCountDesc(BQ_GroupByColumn(keyed, "key"))}

\* devices: SELECT IF(MOBILE_TEST, 'Mobile', 'Desktop') AS key (a test that
\* is NULL takes the else branch)
BQ_devicesRows(rows, filter, queryOptions) ==
    LET keyed == {("key" :> IF BQ_MOBILE_TEST(r) = "T" THEN "Mobile" ELSE "Desktop") @@ r :
                     r \in BQ_Select(rows, filter)}
    IN  {Limit(q, queryOptions.limit) :
            q \in SortedByUserCountDesc(BQ_GroupByColumn(keyed, "key"))}

\* getAsMobileAggregationRegex under $or: some $regexMatch of MOBILE_TEST
\* holds (a missing input never matches)
Mongo_getAsMobileAggregationRegex(doc) ==
    \E i \in 1..Len(Mongo_MOBILE_TEST) : Mongo_RegexField(doc, Mongo_MOBILE_TEST[i])

\* the pipeline of devices up to its $sort
Mongo_devicesRows(docs, queryOptions) ==
    LET keyed == {("key" :> IF Mongo_getAsMobileAggregationRegex(d)
                            THEN "Mobile" ELSE "Desktop") @@ d :
                     d \in Mongo_Select(docs, Mongo_getAppFilter(queryOptions))}
    IN  SortedByUserCountDesc(Mongo_GroupByField(keyed, "key"))

\* the events of the ranking-by-field stores: two users, two instants and
\* four kinds of event (a desktop one, a mobile one, one with empty or
\* missing fields and a lower-case os name, one without os and device)
GroupRows ==
    LET mobile == [BaseRow EXCEPT !.user_country = "b", !.event = "b", !.event_group = "b",
                                  !.utm_source = "b", !.utm_medium = "b",
                                  !.utm_campaign = "b", !.browser_name = MobileSafari,
                                  !.device_name = IPhone, !.os_name = IOS,
                                  !.referrer_url = Url2, !.page_url = Url2]
        empty  == Without(Without(
                      [BaseRow EXCEPT !.utm_source = "", !.utm_medium = "",
                                      !.utm_campaign = "", !.os_name = AndroidLower,
                                      !.referrer_url = <<>>, !.page_url = <<>>],
                      "user_country"), "event_group")
        bare   == Without(Without(BaseRow, "os_name"), "device_name")
    IN  {[k \in DOMAIN p |-> CASE k = "user_hash" -> u
                               [] k = "dt" -> t
                               [] OTHER -> p[k]] :
            p \in {BaseRow, mobile, empty, bare}, u \in {"u1", "u2"}, t \in {200, 1000}}

GroupCallOptions ==
    LET range == [from |-> 0, to |-> 1 * MsPerDay]
    IN  {[time_slice |-> "DAY", filter_options |-> fo, limit |-> l] :
            fo \in {range, ("mobile" :> TRUE) @@ range, ("mobile" :> FALSE) @@ range,
                    ("event_group" :> "a") @@ range},
            l \in {1, 10000}}

InitGroups ==
    /\ now = CallClock
    /\ usageIngestEndpointEnvironmentId = [e \in Entities |-> "undefined"]
    /\ store \in UpTo(GroupRows, MaxRows)
    /\ bigQuery = "undefined"
    /\ call = NoCall
    /\ row = BaseRow
    /\ opts = QueryOptionsOf([from |-> 0, to |-> 1 * MsPerDay])
    /\ admitted = NoVerdict
    /\ calls = NoCalls
    /\ constructed = 0
    /\ datasets = {}
    /\ attempts = NoAttempts

BQ_devices ==
    /\ call = NoCall
    /\ \E queryOptions \in GroupCallOptions, failure \in Failures :
          BQ_Metric("devices", "App", queryOptions, failure,
                    BQ_devicesRows(store, BQ_getAppFilter(queryOptions, now), queryOptions))
    /\ UNCHANGED <<now, usageIngestEndpointEnvironmentId, store, row, opts, admitted,
                   calls, constructed, datasets, attempts>>

BQ_eventGroups ==
    /\ call = NoCall
    /\ \E queryOptions \in GroupCallOptions, failure \in Failures :
          BQ_Metric("eventGroups", "App", queryOptions, failure,
                    BQ_eventGroupsRows(store, BQ_getAppFilter(queryOptions, now), queryOptions))
    /\ UNCHANGED <<now, usageIngestEndpointEnvironmentId, store, row, opts, admitted,
                   calls, constructed, datasets, attempts>>

BQ_events ==
    /\ call = NoCall
    /\ \E queryOptions \in GroupCallOptions, failure \in Failures :
          BQ_Metric("events", "App", queryOptions, failure,
                    BQ_columnRows(store, BQ_getAppFilter(queryOptions, now), queryOptions,
                                  "event"))
    /\ UNCHANGED <<now, usageIngestEndpointEnvironmentId, store, row, opts, admitted,
                   calls, constructed, datasets, attempts>>

BQ_browsers ==
    /\ call = NoCall
    /\ \E queryOptions \in GroupCallOptions, failure \in Failures :
          BQ_Metric("browsers", "App", queryOptions, failure,
                    BQ_columnRows(store, BQ_getAppFilter(queryOptions, now), queryOptions,
                                  "browser_name"))
    /\ UNCHANGED <<now, usageIngestEndpointEnvironmentId, store, row, opts, admitted,
                   calls, constructed, datasets, attempts>>

BQ_operatingSystems ==
    /\ call = NoCall
    /\ \E queryOptions \in GroupCallOptions, failure \in Failures :
          BQ_Metric("operatingSystems", "App", queryOptions, failure,
                    BQ_columnRows(store, BQ_getAppFilter(queryOptions, now), queryOptions,
                                  "os_name"))
    /\ UNCHANGED <<now, usageIngestEndpointEnvironmentId, store, row, opts, admitted,
                   calls, constructed, datasets, attempts>>

Mongo_devices ==
    /\ call = NoCall
    /\ \E queryOptions \in GroupCallOptions, failure \in Failures :
          Mongo_Metric("devices", "App", queryOptions, failure,
                       Mongo_devicesRows(store, queryOptions), queryOptions.limit)
    /\ UNCHANGED <<now, usageIngestEndpointEnvironmentId, store, row, opts, admitted,
                   calls, constructed, datasets, attempts>>

\* eventGroups: simpleAppAggregation(app, queryOptions, 'event_group', true)
Mongo_eventGroups ==
    /\ call = NoCall
    /\ \E queryOptions \in GroupCallOptions, failure \in Failures :
          Mongo_Metric("eventGroups", "App", queryOptions, failure,
                       Mongo_simpleAppAggregationRows(store, queryOptions, "event_group", TRUE),
                       queryOptions.limit)
    /\ UNCHANGED <<now, usageIngestEndpointEnvironmentId, store, row, opts, admitted,
                   calls, constructed, datasets, attempts>>

\* events: simpleAppAggregation(app, queryOptions, 'event')
Mongo_events ==
    /\ call = NoCall
    /\ \E queryOptions \in GroupCallOptions, failure \in Failures :
          Mongo_Metric("events", "App", queryOptions, failure,
                       Mongo_simpleAppAggregationRows(store, queryOptions, "event", FALSE),
                       queryOptions.limit)
    /\ UNCHANGED <<now, usageIngestEndpointEnvironmentId, store, row, opts, admitted,
                   calls, constructed, datasets, attempts>>

\* browsers: simpleAppAggregation(app, queryOptions, 'browser_name')
Mongo_browsers ==
    /\ call = NoCall
    /\ \E queryOptions \in GroupCallOptions, failure \in Failures :
          Mongo_Metric("browsers", "App", queryOptions, failure,
                       Mongo_simpleAppAggregationRows(store, queryOptions, "browser_name", FALSE),
                       queryOptions.limit)
    /\ UNCHANGED <<now, usageIngestEndpointEnvironmentId, store, row, opts, admitted,
                   calls, constructed, datasets, attempts>>

\* operatingSystems: simpleAppAggregation(app, queryOptions, 'os_name')
Mongo_operatingSystems ==
    /\ call = NoCall
    /\ \E queryOptions \in GroupCallOptions, failure \in Failures :
          Mongo_Metric("operatingSystems", "App", queryOptions, failure,
                       Mongo_simpleAppAggregationRows(store, queryOptions, "os_name", FALSE),
                       queryOptions.limit)
    /\ UNCHANGED <<now, usageIngestEndpointEnvironmentId, store, row, opts, admitted,
                   calls, constructed, datasets, attempts>>

\* every application-scoped metric that returns a list
NextGroups ==
    \/ resolve
    \/ createApp
    \/ BQ_countries
    \/ BQ_devices
    \/ BQ_eventGroups
    \/ BQ_events
    \/ BQ_browsers
    \/ BQ_operatingSystems
    \/ BQ_eventRequests
    \/ BQ_utms
    \/ BQ_pages
    \/ BQ_referrers
    \/ BQ_referrerTlds
    \/ Mongo_countries
    \/ Mongo_devices
    \/ Mongo_eventGroups
    \/ Mongo_events
    \/ Mongo_browsers
    \/ Mongo_operatingSystems
    \/ Mongo_eventRequests
    \/ Mongo_utms
    \/ Mongo_pages
    \/ Mongo_referrers
    \/ Mongo_referrerTlds

SpecGroups == InitGroups /\ [][NextGroups]_vars


----------------------------------------------------------------------------
(* Properties of the rankings by a stored field or by the device class *)

RankedOps == {"countries", "devices", "eventGroups", "events", "browsers", "operatingSystems"}

\* the row lists a backend can return for a ranking from the same events
RankRowsets(backend, op, rows, queryOptions, clock) ==
    IF backend = "bq"
    THEN CASE op = "countries" ->
                BQ_countriesRows(rows, BQ_getAppFilter(queryOptions, clock), queryOptions)
           [] op = "devices" ->
                BQ_devicesRows(rows, BQ_getAppFilter(queryOptions, clock), queryOptions)
           [] op = "eventGroups" ->
                BQ_eventGroupsRows(rows, BQ_getAppFilter(queryOptions, clock), queryOptions)
           [] op = "events" ->
                BQ_columnRows(rows, BQ_getAppFilter(queryOptions, clock), queryOptions, "event")
           [] op = "browsers" ->
                BQ_columnRows(rows, BQ_getAppFilter(queryOptions, clock), queryOptions,
                              "browser_name")
           [] op = "operatingSystems" ->
                BQ_columnRows(rows, BQ_getAppFilter(queryOptions, clock), queryOptions,
                              "os_name")
    ELSE {Limit(q, queryOptions.limit) :
             q \in CASE op = "countries" ->
                          Mongo_simpleAppAggregationRows(rows, queryOptions, "user_country", TRUE)
                     [] op = "devices" -> Mongo_devicesRows(rows, queryOptions)
                     [] op = "eventGroups" ->
                          Mongo_simpleAppAggregationRows(rows, queryOptions, "event_group", TRUE)
                     [] op = "events" ->
                          Mongo_simpleAppAggregationRows(rows, queryOptions, "event", FALSE)
                     [] op = "browsers" ->
                          Mongo_simpleAppAggregationRows(rows, queryOptions, "browser_name", FALSE)
                     [] op = "operatingSystems" ->
                          Mongo_simpleAppAggregationRows(rows, queryOptions, "os_name", FALSE)}

\* a limit no grouping of the stores reaches
Uncut(queryOptions) == [queryOptions EXCEPT !.limit = 10000]

\* the rows of the full grouping of a ranking
FullGrouping(backend, op, rows, queryOptions, clock) ==
    RowsIn(CHOOSE f \in RankRowsets(backend, op, rows, Uncut(queryOptions), clock) : TRUE)

\* C23: in both backends the result of countries, devices, eventGroups,
\* events, browsers and operatingSystems has at most `limit` rows, in
\* non-increasing order of user_count, and when the full grouping has more
\* rows than the limit the rows kept are rows of the full grouping and no
\* row left out has a higher user_count than a row kept.
C23_RankingSortedThenLimited ==
    \A op \in RankedOps :
        Answered(op)
        => LET result == call.value.result
               full   == FullGrouping(call.backend, op, store, call.options, now)
           IN  /\ Len(result) <= call.options.limit
               /\ \A i, j \in DOMAIN result :
                     i < j => result[i].user_count >= result[j].user_count
               /\ Len(result) = IF Cardinality(full) > call.options.limit
                                THEN call.options.limit ELSE Cardinality(full)
               /\ RowsIn(result) \subseteq full
               /\ \A d \in full \ RowsIn(result), k \in RowsIn(result) :
                     d.user_count <= k.user_count

\* a ranking of the document backend cut to one row: the row kept has two
\* users and the row left out has one
C23_Witness ==
    /\ Answered("browsers")
    /\ call.backend = "mongo"
    /\ call.options.limit = 1
    /\ Len(call.value.result) = 1
    /\ call.value.result[1].user_count = 2
    /\ \E d \in FullGrouping("mongo", "browsers", store, call.options, now) : d.user_count = 1


\* the empty value of the field a metric groups on
EmptyKey(op) == IF op \in UtmsOps THEN "" ELSE <<>>

\* C24: in both backends the results of utms(dimension), pages(undefined)
\* and referrers never contain a row whose key is the empty string.
C24_NoEmptyKey ==
    \A op \in UtmsOps \cup {"pages", "referrers"} :
        Answered(op)
        => \A i \in DOMAIN call.value.result :
              Has(call.value.result[i], "key") => call.value.result[i].key # EmptyKey(op)


\* the application filter of a backend
AppFilterOf(backend) == IF backend = "bq" THEN "bq.app" ELSE "mongo.app"

\* the events of sel that the backend's filter with mobile = true admits
MobileEvents(backend, sel, queryOptions, clock) ==
    {r \in sel : Admits(AppFilterOf(backend), WithMobile(queryOptions, TRUE), clock, r)}

\* the row of a device class over the events S, if there are any
DeviceRow(k, S) ==
    IF S = {} THEN {}
    ELSE {[key |-> k, user_count |-> Cardinality(UsersOf(S)), event_count |-> Cardinality(S)]}

\* C26: in both backends devices returns only the keys 'Mobile' and
\* 'Desktop', the 'Mobile' row counts exactly the filtered events that the
\* mobile = true filter of the same backend admits and the 'Desktop' row the
\* others; called with mobile = true it returns no 'Desktop' row and called
\* with mobile = false no 'Mobile' row.
C26_DevicesFollowMobileFilter ==
    Answered("devices")
    => LET result == call.value.result
           sel    == FilteredBy(call.backend, store, call.options, now)
           mob    == MobileEvents(call.backend, sel, call.options, now)
           full   == DeviceRow("Mobile", mob) \cup DeviceRow("Desktop", sel \ mob)
           fo     == call.options.filter_options
       IN  /\ RowsIn(result) \subseteq full
           /\ Cardinality(full) <= call.options.limit => RowsIn(result) = full
           /\ (Has(fo, "mobile") /\ fo.mobile)
                 => \A i \in DOMAIN result : result[i].key # "Desktop"
           /\ (Has(fo, "mobile") /\ ~fo.mobile)
                 => \A i \in DOMAIN result : result[i].key # "Mobile"

\* devices of the columnar backend, called without a mobile filter on a store
\* with a mobile event and an event that has no os and no device, returns
\* both rows
C26_Witness ==
    /\ Answered("devices")
    /\ call.backend = "bq"
    /\ ~Has(call.options.filter_options, "mobile")
    /\ Len(call.value.result) = 2
    /\ \E r \in store : ~Has(r, "os_name")
    /\ \E r \in store : Has(r, "device_name") /\ r.device_name = IPhone


\* the metrics of the document backend that require their field to exist
PresenceOps ==
    {"countries", "eventGroups", "pages", "pages(ENTRY)", "pages(EXIT)", "referrers",
     "referrerTlds"} \cup (UtmsOps \ {"utms(TERM)"})

\* the field such a metric groups on
KeyField(op) ==
    CASE op = "countries" -> "user_country"
      [] op = "eventGroups" -> "event_group"
      [] op \in UtmsOps -> Mongo_getUTMKey(UtmFilterOf(op))
      [] op \in {"referrers", "referrerTlds"} -> "referrer_url"
      [] OTHER -> "page_url"

\* the key the document backend groups an event under
KeyOf(op, r) ==
    IF op = "referrerTlds" THEN Mongo_regexFind(r.referrer_url) ELSE r[KeyField(op)]

\* C27: in the document backend the field-presence requirement of
\* countries, eventGroups, utms, pages, referrers and referrerTlds never
\* replaces a caller's filter: every key of the result is the key of an
\* event that the application filter admits, including when the caller
\* filters on the field the metric groups on.
C27_PresenceKeepsCallerFilter ==
    \A op \in PresenceOps :
        (Answered(op) /\ call.backend = "mongo")
        => \A i \in DOMAIN call.value.result :
              Has(call.value.result[i], "key")
              => \E r \in FilteredBy("mongo", store, call.options, now) :
                    /\ Has(r, KeyField(op))
                    /\ KeyOf(op, r) = call.value.result[i].key


TouchOps == {"referrers", "referrerTlds", "pages(ENTRY)", "pages(EXIT)"}

\* the sum of user_count over the rows of a result
TotalUsers(result) ==
    SumOver(DOMAIN result, [i \in DOMAIN result |-> result[i].user_count])

\* C28: in both backends referrers, referrerTlds and pages('ENTRY'|'EXIT')
\* count each user under at most one key: the sum of user_count over the
\* untruncated result never exceeds the number of distinct users with a
\* filtered event, also when a user has several events at the same earliest
\* (or latest) instant with different values.
C28_UserUnderOneKey ==
    \A op \in TouchOps :
        (Answered(op) /\ call.options.limit = 10000)
        => TotalUsers(call.value.result)
              <= Cardinality(UsersOf(FilteredBy(call.backend, store, call.options, now)))


\* the application-scoped metrics that return a list
AppListOps == RankedOps \cup PresenceOps \cup {"eventRequests"}

\* C29: in both backends, in every list result of an application-scoped
\* metric the keys are pairwise distinct (at most one row has no key) and
\* every row satisfies 1 <= user_count <= event_count.
C29_RowsWellFormed ==
    (call # NoCall /\ call.op \in AppListOps /\ Answered(call.op))
    => LET result == call.value.result
       IN  /\ \A i, j \in DOMAIN result :
                 i # j => /\ Has(result[i], "key") \/ Has(result[j], "key")
                          /\ (Has(result[i], "key") /\ Has(result[j], "key"))
                                => result[i].key # result[j].key
           /\ \A i \in DOMAIN result :
                 /\ 1 <= result[i].user_count
                 /\ result[i].user_count <= result[i].event_count

\* a ranking of the columnar backend with two rows, one of them of a user
\* with two events
C29_Witness ==
    /\ Answered("browsers")
    /\ call.backend = "bq"
    /\ Len(call.value.result) = 2
    /\ \E i \in DOMAIN call.value.result :
          call.value.result[i].user_count < call.value.result[i].event_count

============================================================================
